---- MODULE Spec2Model ----
(***************************************************************************)
(* Challan / invoice billing application (src/billing-app/app.py).         *)
(*                                                                         *)
(* The model covers the two ledgers kept in the backing spreadsheet        *)
(* (Challan and Invoice tabs), the sequence allocator, the challan and     *)
(* invoice routes with their ledger appends, the proration of an invoice   *)
(* into ledger rows and the reconciliation write of INVOICE_MTR.           *)
(*                                                                         *)
(* Text is a sequence of one-character strings, so that strip(), isdigit() *)
(* and the trailing-digits pattern act on characters.  The decimal values  *)
(* of the forms and of the ledger cells are exact rationals [n, d];        *)
(* round() and "%.2f" round half to even.  The totals and the per-row      *)
(* amounts of an invoice are also followed in binary64, the arithmetic of  *)
(* Python's float, in the variable prorated (SpecFloat).  The readers of   *)
(* the spreadsheet (firms, suppliers, challan rows with their header       *)
(* normalizer, next numbers, login) act on the variable store and leave    *)
(* what they return in loaded (SpecSheet); the writers of the two ledger   *)
(* tabs act on store as well (SpecLedger).  The variable user holds the    *)
(* user of each browser session (SpecAuth) and disk the clock and the      *)
(* files of the server (SpecOutput).                                       *)
(***************************************************************************)
EXTENDS Integers, Sequences, FiniteSets, TLC

VARIABLES challan, invoice, sess, ndocs, prorated, store, loaded, user, disk

vars == <<challan, invoice, sess, ndocs, prorated, store, loaded, user, disk>>

-----------------------------------------------------------------------------
(* Bounds of the model *)

\* documents (POST requests that pass validation) created in one behaviour
MaxDocs == 2

\* rows of a ledger that exist before the first request (allocator checks)
MaxLedger == 3

-----------------------------------------------------------------------------
(* Program constants *)

GST_TOTAL == 5

INV_MAX_ROWS == 10

CH_MAX_ROWS == 5

-----------------------------------------------------------------------------
(* Text *)

DecimalChars == {"0", "1", "2", "3", "4", "5", "6", "7", "8", "9"}

\* str.isdigit() also accepts digit characters that int() rejects, such as
\* the superscript two
SuperTwo == "^2"

IsDigitChar(c) == c \in DecimalChars \/ c = SuperTwo

IsDecimalChar(c) == c \in DecimalChars

IsSpace(c) == c = " "

DigitVal(c) ==
    CASE c = "0" -> 0 [] c = "1" -> 1 [] c = "2" -> 2 [] c = "3" -> 3
      [] c = "4" -> 4 [] c = "5" -> 5 [] c = "6" -> 6 [] c = "7" -> 7
      [] c = "8" -> 8 [] c = "9" -> 9

DigitChar(k) ==
    CASE k = 0 -> "0" [] k = 1 -> "1" [] k = 2 -> "2" [] k = 3 -> "3"
      [] k = 4 -> "4" [] k = 5 -> "5" [] k = 6 -> "6" [] k = 7 -> "7"
      [] k = 8 -> "8" [] k = 9 -> "9"

RECURSIVE LStrip(_)
LStrip(s) ==
    IF s # <<>> /\ IsSpace(Head(s)) THEN LStrip(Tail(s)) ELSE s

RECURSIVE RStrip(_)
RStrip(s) ==
    IF s # <<>> /\ IsSpace(s[Len(s)]) THEN RStrip(SubSeq(s, 1, Len(s) - 1)) ELSE s

\* str.strip()
Strip(s) == RStrip(LStrip(s))

\* the letters
UpperCase ==
    <<"A", "B", "C", "D", "E", "F", "G", "H", "I", "J", "K", "L", "M",
      "N", "O", "P", "Q", "R", "S", "T", "U", "V", "W", "X", "Y", "Z">>

LowerCase ==
    <<"a", "b", "c", "d", "e", "f", "g", "h", "i", "j", "k", "l", "m",
      "n", "o", "p", "q", "r", "s", "t", "u", "v", "w", "x", "y", "z">>

\* str.lower() and str.upper() on the letters
ToLower == [c \in {UpperCase[i] : i \in 1..26} |->
               LowerCase[CHOOSE i \in 1..26 : UpperCase[i] = c]]

ToUpper == [c \in {LowerCase[i] : i \in 1..26} |->
               UpperCase[CHOOSE i \in 1..26 : LowerCase[i] = c]]

\* str.lower() and str.upper() on one character
Lower(c) == IF c \in DOMAIN ToLower THEN ToLower[c] ELSE c

Upper(c) == IF c \in DOMAIN ToUpper THEN ToUpper[c] ELSE c

LowerOf(s) == [i \in 1..Len(s) |-> Lower(s[i])]

UpperOf(s) == [i \in 1..Len(s) |-> Upper(s[i])]

\* str.isdigit(): non-empty and every character a digit character
IsDigit(s) == s # <<>> /\ \A i \in 1..Len(s) : IsDigitChar(s[i])

\* the text matched by (\d+)$ : the longest run of decimal digits that ends s
RECURSIVE TrailingDigits(_)
TrailingDigits(s) ==
    IF s # <<>> /\ IsDecimalChar(s[Len(s)])
    THEN Append(TrailingDigits(SubSeq(s, 1, Len(s) - 1)), s[Len(s)])
    ELSE <<>>

\* int() of a text made of decimal digits
RECURSIVE IntOf(_)
IntOf(s) ==
    IF s = <<>> THEN 0
    ELSE 10 * IntOf(SubSeq(s, 1, Len(s) - 1)) + DigitVal(s[Len(s)])

\* str() of a non-negative integer
RECURSIVE ToStr(_)
ToStr(k) ==
    IF k < 10 THEN <<DigitChar(k)>> ELSE Append(ToStr(k \div 10), DigitChar(k % 10))

-----------------------------------------------------------------------------
(* Sequence allocator *)

\* The candidate number of one cell, lines 284-286 / 298-300:
\*   num = int(raw) if raw.isdigit() else (int(m.group(1)) if m else None)
\* tag "int" with its value, "none" for None, "raise" when int(raw) raises
\* ValueError (raw.isdigit() holds and raw is not made of decimal digits).
CandidateOf(cell) ==
    LET raw == Strip(cell)
        m   == TrailingDigits(raw)
    IN  IF IsDigit(raw)
        THEN IF \A i \in 1..Len(raw) : IsDecimalChar(raw[i])
             THEN [tag |-> "int", val |-> IntOf(raw)]
             ELSE [tag |-> "raise", val |-> 0]
        ELSE IF m # <<>> THEN [tag |-> "int", val |-> IntOf(m)]
             ELSE [tag |-> "none", val |-> 0]

\* The loop of lines 282-287 over the cells from position i on, max_num so far
\* in acc; -1 when an iteration raises.
RECURSIVE MaxNumLoop(_, _, _)
MaxNumLoop(cells, i, acc) ==
    IF i > Len(cells) THEN acc
    ELSE LET c == CandidateOf(cells[i])
         IN  IF c.tag = "raise" THEN -1
             ELSE MaxNumLoop(cells, i + 1,
                             IF c.tag = "int" /\ c.val > acc THEN c.val ELSE acc)

\* return str(max_num + 1 if max_num > 0 else 1); except Exception: return "1"
NextNumber(cells) ==
    LET max_num == MaxNumLoop(cells, 1, 0)
    IN  IF max_num = -1 THEN <<"1">>
        ELSE ToStr(IF max_num > 0 THEN max_num + 1 ELSE 1)

-----------------------------------------------------------------------------
(* Numbers: the decimal values of the forms and of the ledger cells as exact
   rationals [n |-> numerator, d |-> denominator > 0]; the binary64 rounding of
   the proration is modelled further down. *)

RECURSIVE GCD(_, _)
GCD(a, b) == IF b = 0 THEN a ELSE GCD(b, a % b)

Abs(x) == IF x < 0 THEN -x ELSE x

Rat(n, d) ==
    LET g == GCD(Abs(n), Abs(d))
        s == IF d < 0 THEN -1 ELSE 1
    IN  [n |-> (s * n) \div g, d |-> (s * d) \div g]

Zero == [n |-> 0, d |-> 1]

RAdd(a, b) ==
    LET g == GCD(a.d, b.d)
    IN  Rat(a.n * (b.d \div g) + b.n * (a.d \div g), (a.d \div g) * b.d)

RNeg(a) == [n |-> -a.n, d |-> a.d]

RSub(a, b) == RAdd(a, RNeg(b))

RMul(a, b) ==
    LET g1 == GCD(Abs(a.n), b.d)
        g2 == GCD(Abs(b.n), a.d)
    IN  IF a.n = 0 \/ b.n = 0 THEN Zero
        ELSE Rat((a.n \div g1) * (b.n \div g2), (a.d \div g2) * (b.d \div g1))

\* a / b for b # 0
RDiv(a, b) == RMul(a, Rat(b.d, b.n))

RLt(a, b) == a.n * b.d < b.n * a.d

RLe(a, b) == a.n * b.d <= b.n * a.d

\* max(a, 0.0)
RMax0(a) == IF a.n < 0 THEN Zero ELSE a

\* round(x) and round(x, 0): to the nearest integer, a tie to the even one
RoundHalfEven(a) ==
    LET q == a.n \div a.d
        r == a.n - q * a.d
    IN  IF 2 * r < a.d THEN q
        ELSE IF 2 * r > a.d THEN q + 1
        ELSE IF q % 2 = 0 THEN q ELSE q + 1

\* f"{x:.2f}": the value in hundredths, rounded to the nearest, a tie to even
Fmt2(a) == RoundHalfEven(RMul(a, Rat(100, 1)))

\* CGST_RATE = SGST_RATE = GST_TOTAL / 2.0, line 55
CGST_RATE == Rat(GST_TOTAL, 2)

SGST_RATE == CGST_RATE

\* x * (CGST_RATE / 100.0)
TaxLeg(x, rate) == RMul(x, RDiv(rate, Rat(100, 1)))

-----------------------------------------------------------------------------
(* Line items *)

\* A submitted form line: ch[], desc[], qty[], rate[]; a number field is the
\* outcome of float(): ok = FALSE when float() raises.
\* The filter of lines 1394-1401 (invoice): keeps [ch.strip(), d.strip(), qf, rf, qf*rf]
\* a filter that keeps a line whose quantity is zero
InvoiceItemKeepsZero(x) ==
    IF Strip(x.desc) = <<>> THEN <<>>
    ELSE IF ~x.q.ok \/ ~x.r.ok THEN <<>>
    ELSE IF RLt(x.q.v, Zero) \/ RLt(x.r.v, Zero) THEN <<>>
    ELSE <<[ch |-> Strip(x.ch), desc |-> Strip(x.desc), q |-> x.q.v,
            r |-> x.r.v, a |-> RMul(x.q.v, x.r.v)]>>

\* (the lines lo..hi of the form are filtered by halves, which keeps the
\* evaluation shallow for long forms)
InvoiceItemOf(x) ==
    IF Strip(x.desc) = <<>> THEN <<>>
    ELSE IF ~x.q.ok \/ ~x.r.ok THEN <<>>
    ELSE IF RLe(x.q.v, Zero) \/ RLt(x.r.v, Zero) THEN <<>>
    ELSE <<[ch |-> Strip(x.ch), desc |-> Strip(x.desc), q |-> x.q.v,
            r |-> x.r.v, a |-> RMul(x.q.v, x.r.v)]>>

RECURSIVE InvoiceItemsIn(_, _, _)
InvoiceItemsIn(raw, lo, hi) ==
    IF lo > hi THEN <<>>
    ELSE IF lo = hi THEN InvoiceItemOf(raw[lo])
    ELSE InvoiceItemsIn(raw, lo, (lo + hi) \div 2)
           \o InvoiceItemsIn(raw, (lo + hi) \div 2 + 1, hi)

InvoiceItems(raw) == InvoiceItemsIn(raw, 1, Len(raw))

\* The filter of lines 1305-1312 (challan): keeps [d.strip(), qf, rf, qf*rf]
ChallanItemOf(x) ==
    IF Strip(x.desc) = <<>> THEN <<>>
    ELSE IF ~x.q.ok \/ ~x.r.ok THEN <<>>
    ELSE IF RLe(x.q.v, Zero) \/ RLt(x.r.v, Zero) THEN <<>>
    ELSE <<[desc |-> Strip(x.desc), q |-> x.q.v,
            r |-> x.r.v, a |-> RMul(x.q.v, x.r.v)]>>

RECURSIVE ChallanItemsIn(_, _, _)
ChallanItemsIn(raw, lo, hi) ==
    IF lo > hi THEN <<>>
    ELSE IF lo = hi THEN ChallanItemOf(raw[lo])
    ELSE ChallanItemsIn(raw, lo, (lo + hi) \div 2)
           \o ChallanItemsIn(raw, (lo + hi) \div 2 + 1, hi)

ChallanItems(raw) == ChallanItemsIn(raw, 1, Len(raw))

-----------------------------------------------------------------------------
(* Proration and rounding of an invoice, lines 1411-1425 *)

\* the sum of the amounts of items lo..hi, taken by halves
RECURSIVE SumAmountsIn(_, _, _)
SumAmountsIn(items, lo, hi) ==
    IF lo > hi THEN Zero
    ELSE IF lo = hi THEN items[lo].a
    ELSE RAdd(SumAmountsIn(items, lo, (lo + hi) \div 2),
              SumAmountsIn(items, (lo + hi) \div 2 + 1, hi))

SumAmounts(items) == SumAmountsIn(items, 1, Len(items))

\* sub_total = sum(i[5] for i in items)
SubTotal(items) == SumAmounts(items)

\* gross_all = max(sub_total - discount, 0.0)
GrossAll(items, discount) == RMax0(RSub(SubTotal(items), discount))

\* gross_all + cgst_all + sgst_all
GrossWithTax(items, discount) ==
    LET g == GrossAll(items, discount)
    IN  RAdd(RAdd(g, TaxLeg(g, CGST_RATE)), TaxLeg(g, SGST_RATE))

\* rounded_total = round(gross_all + cgst_all + sgst_all, 0)
RoundedTotal(items, discount) == RoundHalfEven(GrossWithTax(items, discount))

\* round_off_total = rounded_total - (gross_all + cgst_all + sgst_all)
RoundOffTotal(items, discount) ==
    RSub(Rat(RoundedTotal(items, discount), 1), GrossWithTax(items, discount))

\* share = (a / sub_total) if sub_total > 0 else 0.0
Share(items, i) ==
    IF RLt(Zero, SubTotal(items)) THEN RDiv(items[i].a, SubTotal(items)) ELSE Zero

\* row_discount = discount * share
RowDiscount(items, discount, i) == RMul(discount, Share(items, i))

\* row_taxable = max(a - row_discount, 0.0)
RowTaxable(items, discount, i) == RMax0(RSub(items[i].a, RowDiscount(items, discount, i)))

\* a loop that gives the remainder to the first row instead of the last
RowRoundOnFirst(items, discount, i) ==
    IF i = 1 THEN RoundOffTotal(items, discount) ELSE Zero

\* row_round = round_off_total if i == len(items)-1 else 0.0
RowRound(items, discount, i) ==
    IF i = Len(items) THEN RoundOffTotal(items, discount) ELSE Zero

\* row_gross = row_taxable + row_cgst + row_sgst + row_round
RowGross(items, discount, i) ==
    LET t == RowTaxable(items, discount, i)
    IN  RAdd(RAdd(RAdd(t, TaxLeg(t, CGST_RATE)), TaxLeg(t, SGST_RATE)),
             RowRound(items, discount, i))

\* int(round(row_gross)), the Grand_Total cell
RowGrandTotal(items, discount, i) == RoundHalfEven(RowGross(items, discount, i))

-----------------------------------------------------------------------------
(* binary64: the arithmetic of Python's float, for the proration of lines
   1400-1421. A natural number of any size is a sequence of limbs below
   LimbBase, lowest first, with no zero limb on top. A float is
   [neg, m, e], the value (-1)^neg * m * 2^e with m odd and below
   2^MantissaBits, or m = <<>> for zero. The amounts of a form stay far from
   the overflow and subnormal ranges, which are not represented. *)

LimbBits == 15

LimbBase == 32768

MantissaBits == 53

Limb(x, i) == IF i <= Len(x) THEN x[i] ELSE 0

RECURSIVE BTrim(_)
BTrim(x) ==
    IF x # <<>> /\ x[Len(x)] = 0 THEN BTrim(SubSeq(x, 1, Len(x) - 1)) ELSE x

RECURSIVE BOf(_)
BOf(k) == IF k = 0 THEN <<>> ELSE <<k % LimbBase>> \o BOf(k \div LimbBase)

RECURSIVE BAddFrom(_, _, _, _)
BAddFrom(x, y, i, carry) ==
    IF i > Len(x) /\ i > Len(y)
    THEN IF carry = 0 THEN <<>> ELSE <<carry>>
    ELSE LET t == Limb(x, i) + Limb(y, i) + carry
         IN  <<t % LimbBase>> \o BAddFrom(x, y, i + 1, t \div LimbBase)

BAdd(x, y) == BAddFrom(x, y, 1, 0)

RECURSIVE BSubFrom(_, _, _, _)
BSubFrom(x, y, i, borrow) ==
    IF i > Len(x) THEN <<>>
    ELSE LET t == Limb(x, i) - Limb(y, i) - borrow
         IN  <<(t + LimbBase) % LimbBase>>
                 \o BSubFrom(x, y, i + 1, IF t < 0 THEN 1 ELSE 0)

\* x - y for x >= y
BSub(x, y) == BTrim(BSubFrom(x, y, 1, 0))

RECURSIVE BLessFrom(_, _, _)
BLessFrom(x, y, i) ==
    IF i = 0 THEN FALSE
    ELSE IF x[i] # y[i] THEN x[i] < y[i]
    ELSE BLessFrom(x, y, i - 1)

BLess(x, y) ==
    IF Len(x) # Len(y) THEN Len(x) < Len(y) ELSE BLessFrom(x, y, Len(x))

RECURSIVE BMulLimb(_, _, _, _)
BMulLimb(x, k, i, carry) ==
    IF i > Len(x)
    THEN IF carry = 0 THEN <<>> ELSE <<carry>>
    ELSE LET t == x[i] * k + carry
         IN  <<t % LimbBase>> \o BMulLimb(x, k, i + 1, t \div LimbBase)

RECURSIVE BMulRows(_, _)
BMulRows(x, y) ==
    IF y = <<>> THEN <<>>
    ELSE BAdd(BMulLimb(x, Head(y), 1, 0), <<0>> \o BMulRows(x, Tail(y)))

BMul(x, y) == BTrim(BMulRows(x, y))

RECURSIVE Zeros(_)
Zeros(k) == IF k = 0 THEN <<>> ELSE <<0>> \o Zeros(k - 1)

\* x * 2^k
BShl(x, k) ==
    IF x = <<>> THEN <<>>
    ELSE Zeros(k \div LimbBits) \o BMulLimb(x, 2 ^ (k % LimbBits), 1, 0)

\* floor(x / 2^k)
BShr(x, k) ==
    LET w == k \div LimbBits
        p == 2 ^ (k % LimbBits)
        y == IF w >= Len(x) THEN <<>> ELSE SubSeq(x, w + 1, Len(x))
    IN  IF y = <<>> THEN <<>>
        ELSE BTrim([i \in 1..Len(y) |->
                       (y[i] \div p) + (Limb(y, i + 1) % p) * (LimbBase \div p)])

RECURSIVE SmallBits(_)
SmallBits(k) == IF k = 0 THEN 0 ELSE 1 + SmallBits(k \div 2)

\* the number of binary digits of x
BBits(x) ==
    IF x = <<>> THEN 0 ELSE LimbBits * (Len(x) - 1) + SmallBits(x[Len(x)])

\* binary digit i of x, digit 0 the lowest
BBit(x, i) == (Limb(x, (i \div LimbBits) + 1) \div (2 ^ (i % LimbBits))) % 2

\* one step of the long division of n by d: binary digit st.i of n is brought
\* down to the remainder st.r and the quotient st.q gains a digit
BDivStep(n, d, st) ==
    LET r2 == BAdd(BShl(st.r, 1), IF BBit(n, st.i) = 1 THEN <<1>> ELSE <<>>)
        ge == ~BLess(r2, d)
    IN  [i |-> st.i - 1,
         q |-> BAdd(BShl(st.q, 1), IF ge THEN <<1>> ELSE <<>>),
         r |-> IF ge THEN BSub(r2, d) ELSE r2]

\* the steps of the long division down to binary digit lo
RECURSIVE BDivBits(_, _, _, _)
BDivBits(n, d, st, lo) ==
    IF st.i < lo THEN st ELSE BDivBits(n, d, BDivStep(n, d, st), lo)

\* the long division, a limb of n at a time
RECURSIVE BDivLoop(_, _, _)
BDivLoop(n, d, st) ==
    IF st.i < 0 THEN st
    ELSE BDivLoop(n, d, BDivBits(n, d, st, (st.i \div LimbBits) * LimbBits))

\* quotient q and remainder r of n by d > 0
BDivMod(n, d) == BDivLoop(n, d, [i |-> BBits(n) - 1, q |-> <<>>, r |-> <<>>])

FZero == [neg |-> FALSE, m |-> <<>>, e |-> 0]

\* the number of zero binary digits below the lowest one of k > 0
RECURSIVE SmallZeros(_)
SmallZeros(k) == IF k % 2 = 1 THEN 0 ELSE 1 + SmallZeros(k \div 2)

\* the same for x # <<>>, from limb i up
RECURSIVE BZerosFrom(_, _)
BZerosFrom(x, i) ==
    IF x[i] = 0 THEN LimbBits + BZerosFrom(x, i + 1) ELSE SmallZeros(x[i])

\* m * 2^e with the factors of two moved from m to e
FNorm(neg, m, e) ==
    IF m = <<>> THEN FZero
    ELSE LET z == BZerosFrom(m, 1)
         IN  [neg |-> neg, m |-> BShr(m, z), e |-> e + z]

\* floor(p * 2^s / q), and whether that quotient is exact
Scaled(p, q, s) ==
    IF q = <<1>>
    THEN IF s >= 0 THEN [q |-> BShl(p, s), exact |-> TRUE]
         ELSE LET h == BShr(p, -s)
              IN  [q |-> h, exact |-> BShl(h, -s) = p]
    ELSE LET qr == BDivMod(IF s >= 0 THEN BShl(p, s) ELSE p,
                           IF s >= 0 THEN q ELSE BShl(q, -s))
         IN  [q |-> qr.q, exact |-> qr.r = <<>>]

\* the float nearest to (p / q) * 2^e, a tie to the even mantissa
FRound(neg, p, q, e) ==
    IF p = <<>> THEN FZero
    ELSE LET s    == (MantissaBits + 2) + BBits(q) - BBits(p)
             sc   == Scaled(p, q, s)
             t    == BBits(sc.q) - MantissaBits
             hi   == BShr(sc.q, t)
             low  == BSub(sc.q, BShl(hi, t))
             half == BOf(2 ^ (t - 1))
             up   == \/ BLess(half, low)
                     \/ low = half /\ (~sc.exact \/ hi[1] % 2 = 1)
         IN  FNorm(neg, IF up THEN BAdd(hi, <<1>>) ELSE hi, e - s + t)

\* float(text) of a decimal field whose value is the rational v
FloatOf(v) == FRound(v.n < 0, BOf(Abs(v.n)), BOf(v.d), 0)

\* x + y without rounding: [neg, m, e] with m of any size
XAdd(x, y) ==
    LET e0 == IF x.e < y.e THEN x.e ELSE y.e
        mx == BShl(x.m, x.e - e0)
        my == BShl(y.m, y.e - e0)
    IN  IF x.neg = y.neg THEN FNorm(x.neg, BAdd(mx, my), e0)
        ELSE IF BLess(mx, my) THEN FNorm(y.neg, BSub(my, mx), e0)
        ELSE FNorm(x.neg, BSub(mx, my), e0)

FAdd(x, y) ==
    LET z == XAdd(x, y)
    IN  FRound(z.neg, z.m, <<1>>, z.e)

FNeg(x) == IF x.m = <<>> THEN x ELSE [x EXCEPT !.neg = ~x.neg]

FSub(x, y) == FAdd(x, FNeg(y))

FMul(x, y) == FRound(x.neg # y.neg, BMul(x.m, y.m), <<1>>, x.e + y.e)

\* x / y for y # 0
FDiv(x, y) == FRound(x.neg # y.neg, x.m, y.m, x.e - y.e)

FLess(x, y) ==
    LET z == XAdd(x, FNeg(y))
    IN  z.m # <<>> /\ z.neg

\* max(x, 0.0)
FMax0(x) == IF x.neg THEN FZero ELSE x

\* sum(xs) of floats: from the left, each partial sum rounded
RECURSIVE FSumFrom(_, _, _)
FSumFrom(xs, i, acc) ==
    IF i > Len(xs) THEN acc ELSE FSumFrom(xs, i + 1, FAdd(acc, xs[i]))

FSum(xs) == FSumFrom(xs, 1, FZero)

\* a = qf*rf of an item, line 1400
amount(item) == FMul(FloatOf(item.q), FloatOf(item.r))

\* sub_total = sum(i[5] for i in items), line 1411
sub_total(amounts) == FSum(amounts)

\* gross_all = max(sub_total - discount, 0.0), line 1412
gross_all(S, discount) == FMax0(FSub(S, discount))

\* share = (a / sub_total) if sub_total > 0 else 0.0, line 1419
share(a, S) == IF FLess(FZero, S) THEN FDiv(a, S) ELSE FZero

\* row_discount = discount * share, line 1420
row_discount(discount, sh) == FMul(discount, sh)

\* row_taxable = max(a - row_discount, 0.0), line 1421
row_taxable(a, rd) == FMax0(FSub(a, rd))

\* no invoice has been prorated yet
NoProration ==
    [amounts |-> <<>>, sub_total |-> FZero, discount |-> FZero,
     gross_all |-> FZero, row_taxable |-> <<>>]

\* a of every item, lines 1393-1401
RECURSIVE Amounts(_)
Amounts(items) ==
    IF items = <<>> THEN <<>>
    ELSE <<amount(Head(items))>> \o Amounts(Tail(items))

\* row_taxable of every turn of the loop of line 1418
RECURSIVE RowTaxables(_, _, _)
RowTaxables(amounts, S, D) ==
    IF amounts = <<>> THEN <<>>
    ELSE <<row_taxable(Head(amounts), row_discount(D, share(Head(amounts), S)))>>
             \o RowTaxables(Tail(amounts), S, D)

\* the locals of lines 1411-1421 for the amounts and the discount of a request
ProrateAmounts(amounts, S, D) ==
    [amounts |-> amounts, sub_total |-> S, discount |-> D,
     gross_all |-> gross_all(S, D), row_taxable |-> RowTaxables(amounts, S, D)]

\* the same from the items and the discount field, line 1385
Prorate(items, discount) ==
    ProrateAmounts(Amounts(items), sub_total(Amounts(items)), FloatOf(discount))

-----------------------------------------------------------------------------
(* Documents: what draw_challan_pdf and draw_invoice_pdf print *)

\* items[:cap]
Take(items, cap) == SubSeq(items, 1, IF Len(items) > cap THEN cap ELSE Len(items))

\* the item table, lines 604-615 / 709-722: cap rows, row r shows items[r]
\* when r < len(items) and is left blank otherwise
\* a table with a row for every item handed to it, however many
TableUncapped(items, cap) == [r \in 1..Len(items) |-> <<items[r]>>]

Table(items, cap) ==
    [r \in 1..cap |-> IF r <= Len(items) THEN <<items[r]>> ELSE <<>>]

NoDocument ==
    [kind |-> "none", table |-> <<>>, sub_total |-> Zero, taxable |-> Zero,
     tax |-> Zero, round_off |-> Zero, rounded |-> 0]

\* draw_challan_pdf, lines 530-636: the table and total_val (line 622)
draw_challan_pdf(items) ==
    [NoDocument EXCEPT !.kind = "challan",
                       !.table = Table(items, CH_MAX_ROWS),
                       !.sub_total = SumAmounts(items)]

\* draw_invoice_pdf, lines 639-789: the table and the totals of lines 724-731
draw_invoice_pdf(items, discount) ==
    LET sub  == SumAmounts(items)
        txbl == RMax0(RSub(sub, discount))
        cgst == TaxLeg(txbl, CGST_RATE)
        sgst == TaxLeg(txbl, SGST_RATE)
        grs  == RAdd(RAdd(txbl, cgst), sgst)
        rnd  == RoundHalfEven(grs)
    IN  [kind |-> "invoice", table |-> Table(items, INV_MAX_ROWS),
         sub_total |-> sub, taxable |-> txbl, tax |-> RAdd(cgst, sgst),
         round_off |-> RSub(Rat(rnd, 1), grs), rounded |-> rnd]

\* what a page has received for its last submission: nothing yet, the
\* redirect of a rejected submission, or the document sent by send_file
NoResponse == [kind |-> "none", pdf |-> NoDocument]

Redirected == [kind |-> "redirect", pdf |-> NoDocument]

Sent(data) == [kind |-> "pdf", pdf |-> data]

-----------------------------------------------------------------------------
(* Ledger rows *)

\* INVOICE_MTR and other cells that may be blank: <<>> is the empty cell,
\* <<h>> a number of hundredths written as "%.2f"
Blank == <<>>

IsBlank(cell) == cell = <<>>

\* The row dict of lines 1329-1343 as append_row_to_challan stores it (lines
\* 346-358): every key but invoice_mtr is copied, INVOICE_MTR stays empty.
\* doc is the ordinal of the creating request on this ledger (history).
ChallanRow(doc, firm, party_code, ch_no, item) ==
    [doc            |-> doc,
     Firm           |-> firm,
     Supplier_Code  |-> party_code,
     Challan_Number |-> ch_no,
     Description    |-> item.desc,
     Qty            |-> Fmt2(item.q),
     Rate           |-> Fmt2(item.r),
     Taxable_Amount |-> Fmt2(item.a),
     INVOICE_MTR    |-> Blank]

\* The row of lines 1427-1446
InvoiceRow(doc, firm, sup_code, inv_no, items, discount, i) ==
    [doc            |-> doc,
     Firm           |-> firm,
     Invoice_Number |-> inv_no,
     Supplier_Code  |-> sup_code,
     Challan_Number |-> items[i].ch,
     Description    |-> items[i].desc,
     Qty            |-> Fmt2(items[i].q),
     Amount         |-> Fmt2(items[i].a),
     Taxable_Amount |-> Fmt2(RowTaxable(items, discount, i)),
     Discount       |-> Fmt2(RowDiscount(items, discount, i)),
     CGST           |-> Fmt2(TaxLeg(RowTaxable(items, discount, i), CGST_RATE)),
     SGST           |-> Fmt2(TaxLeg(RowTaxable(items, discount, i), SGST_RATE)),
     Round_Off      |-> Fmt2(RowRound(items, discount, i)),
     Grand_Total    |-> RowGrandTotal(items, discount, i)]

\* the Challan_Number / Invoice_Number column of a ledger
ChallanNumbers(rows) == [k \in 1..Len(rows) |-> rows[k].Challan_Number]

InvoiceNumbers(rows) == [k \in 1..Len(rows) |-> rows[k].Invoice_Number]

\* get_next_challan_number(), lines 292-304; ok = FALSE when the read raises
get_next_challan_number(rows, ok) ==
    IF ok THEN NextNumber(ChallanNumbers(rows)) ELSE <<"1">>

\* get_next_invoice_number(), lines 278-290
get_next_invoice_number(rows, ok) ==
    IF ok THEN NextNumber(InvoiceNumbers(rows)) ELSE <<"1">>

\* load_challan_rows(), lines 245-276: the rows, [] when the read raises
load_challan_rows(rows, ok) == IF ok THEN rows ELSE <<>>

\* a handler that takes a fresh number at submission instead of the form's field
ChallanNoRecomputed(field) == NextNumber(ChallanNumbers(challan))

\* ch_no = request.form.get("challan_no") or "1", line 1297
ChallanNo(field) == IF field = <<>> THEN <<"1">> ELSE field

\* inv_no = request.form.get("invoice_no") or "XXX", line 1383
InvoiceNo(field) == IF field = <<>> THEN <<"X", "X", "X">> ELSE field

-----------------------------------------------------------------------------
(* Import of challan lines into the invoice form, addFromChallan *)

\* the filter of lines 1160-1165 (also 1131-1134): a row of CHALLAN_ROWS of
\* the selected firm, compared in capitals, the supplier code and the challan
\* number, compared trimmed
RowOfChallan(r, firm, scode, ch) ==
    /\ UpperOf(r.Firm) = UpperOf(firm)
    /\ r.Supplier_Code = scode
    /\ Strip(r.Challan_Number) = ch

\* rows of the page's CHALLAN_ROWS imported for firm, scode and challan chSel,
\* lines 1154-1165 and 1173-1194: the rows of the challan with an empty
\* INVOICE_MTR
RECURSIVE ImportLines(_, _, _, _)
ImportLines(page, firm, scode, chSel) ==
    IF page = <<>> \/ firm = <<>> \/ scode = <<>> \/ chSel = <<>> THEN <<>>
    ELSE LET r    == Head(page)
             rest == ImportLines(Tail(page), firm, scode, chSel)
         IN  IF RowOfChallan(r, firm, scode, chSel) /\ IsBlank(r.INVOICE_MTR)
             THEN <<[ch   |-> chSel,
                     desc |-> r.Description,
                     q    |-> [ok |-> TRUE, v |-> Rat(r.Qty, 100)],
                     r    |-> [ok |-> TRUE, v |-> Rat(r.Rate, 100)]]>> \o rest
             ELSE rest

\* for(const r of rows){ if(current >= INV_MAX_ROWS) break; ... }
addFromChallan(page, firm, scode, chSel) ==
    LET lines == ImportLines(page, firm, scode, chSel)
    IN  SubSeq(lines, 1, IF Len(lines) > INV_MAX_ROWS THEN INV_MAX_ROWS ELSE Len(lines))

\* refreshChallanOptions(), lines 1122-1150: the challan numbers the select
\* offers for firm and scode, those of the groups with an uninvoiced row
PageChallans(page, firm, scode) ==
    IF firm = <<>> \/ scode = <<>> THEN {}
    ELSE LET grouped(ch) ==
                 {k \in 1..Len(page) : RowOfChallan(page[k], firm, scode, ch)}
             hasUninvoiced(ch) ==
                 \E k \in grouped(ch) : IsBlank(page[k].INVOICE_MTR)
         IN  {ch \in {Strip(page[k].Challan_Number) : k \in 1..Len(page)} :
                 ch # <<>> /\ grouped(ch) # {} /\ hasUninvoiced(ch)}

-----------------------------------------------------------------------------
(* Reconciliation, write_invoice_mtr_to_challan, lines 362-400 *)

\* the condition of lines 387-388 for a challan row and an invoice item
RowMatchesItem(row, company_name, supplier_code, item) ==
    /\ Strip(row.Firm) = company_name
    /\ Strip(row.Supplier_Code) = supplier_code
    /\ Strip(item.ch) = Strip(Strip(row.Challan_Number))
    /\ Strip(item.desc) = Strip(Strip(row.Description))

\* the first item, in order, that the row matches; 0 when none (the inner
\* loop of lines 386-391 with its break)
FirstMatch(row, company_name, supplier_code, items) ==
    LET hits == {k \in 1..Len(items) :
                    RowMatchesItem(row, company_name, supplier_code, items[k])}
    IN  IF hits = {} THEN 0 ELSE CHOOSE k \in hits : \A j \in hits : k <= j

\* the updates list of lines 376-391: one (row, value) per row that matches
\* some item, in row order; the value is f"{float(q):.2f}" of the first item
\* the row matches
RECURSIVE ReconUpdates(_, _, _, _, _)
ReconUpdates(all_values, k, company_name, supplier_code, items) ==
    IF k > Len(all_values) THEN <<>>
    ELSE LET m    == FirstMatch(all_values[k], company_name, supplier_code, items)
             rest == ReconUpdates(all_values, k + 1, company_name, supplier_code, items)
         IN  IF m = 0 THEN rest
             ELSE <<[row |-> k, val |-> Fmt2(items[m].q)]>> \o rest

\* ws.batch_update(data): each update sets the INVOICE_MTR cell of its row
RECURSIVE ApplyUpdates(_, _)
ApplyUpdates(rows, updates) ==
    IF updates = <<>> THEN rows
    ELSE LET u == Head(updates)
         IN  ApplyUpdates(
                 IF u.row <= Len(rows)
                 THEN [rows EXCEPT ![u.row].INVOICE_MTR = <<u.val>>]
                 ELSE rows,
                 Tail(updates))

-----------------------------------------------------------------------------
(* Header normalizer of the challan rows *)

\* a character that [^a-z0-9]+ leaves in place
IsLowerAlnum(c) == c \in DecimalChars \/ c \in DOMAIN ToUpper

\* _norm_key(s), line 229: re.sub(r"[^a-z0-9]+", "", (s or "").lower())
norm_key(s) == SelectSeq(LowerOf(s), IsLowerAlnum)

\* CANON_KEYS, lines 226-228
CANON_KEYS ==
    <<<<"F", "i", "r", "m">>,
      <<"S", "u", "p", "p", "l", "i", "e", "r", " ", "C", "o", "d", "e">>,
      <<"C", "h", "a", "l", "l", "a", "n", "_", "N", "u", "m", "b", "e", "r">>,
      <<"I", "N", "V", "O", "I", "C", "E", "_", "M", "T", "R">>,
      <<"D", "e", "s", "c", "r", "i", "p", "t", "i", "o", "n">>,
      <<"Q", "t", "y">>,
      <<"M", "T", "R">>,
      <<"R", "a", "t", "e">>,
      <<"A", "m", "o", "u", "n", "t">>,
      <<"T", "a", "x", "a", "b", "l", "e", "_", "A", "m", "o", "u", "n", "t">>>>

\* KEY_SYNONYMS, lines 232-243, in the order of its keys
KEY_SYNONYMS ==
    <<
      [canon |-> <<"F", "i", "r", "m">>,
       alts  |-> <<<<"f", "i", "r", "m">>,
                  <<"c", "o", "m", "p", "a", "n", "y">>,
                  <<"c", "o", "m", "p", "a", "n", "y", "n", "a", "m", "e">>>>],
      [canon |-> <<"S", "u", "p", "p", "l", "i", "e", "r", " ", "C", "o", "d", "e">>,
       alts  |-> <<<<"s", "u", "p", "p", "l", "i", "e", "r", "c", "o", "d", "e">>,
                  <<"p", "a", "r", "t", "y", "c", "o", "d", "e">>,
                  <<"s", "u", "p", "p", "l", "i", "e", "r", "_", "c", "o", "d", "e">>,
                  <<"s", "u", "p", "p", "l", "i", "e", "r">>>>],
      [canon |-> <<"C", "h", "a", "l", "l", "a", "n", "_", "N", "u", "m", "b", "e", "r">>,
       alts  |-> <<<<"c", "h", "a", "l", "l", "a", "n", "n", "o">>,
                  <<"c", "h", "a", "l", "l", "a", "n", "_", "n", "o">>,
                  <<"c", "h", "a", "l", "l", "a", "n", "n", "u", "m", "b", "e", "r">>,
                  <<"c", "h", "a", "l", "l", "a", "n">>>>],
      [canon |-> <<"I", "N", "V", "O", "I", "C", "E", "_", "M", "T", "R">>,
       alts  |-> <<<<"i", "n", "v", "o", "i", "c", "e", "_", "m", "t", "r">>,
                  <<"i", "n", "v", "o", "i", "c", "e", "m", "t", "r">>,
                  <<"i", "n", "v", "o", "i", "c", "e", "m", "e", "t", "e", "r">>>>],
      [canon |-> <<"D", "e", "s", "c", "r", "i", "p", "t", "i", "o", "n">>,
       alts  |-> <<<<"d", "e", "s", "c", "r", "i", "p", "t", "i", "o", "n">>,
                  <<"d", "e", "s", "c">>,
                  <<"p", "r", "o", "d", "u", "c", "t", "n", "a", "m", "e">>,
                  <<"i", "t", "e", "m">>,
                  <<"p", "a", "r", "t", "i", "c", "u", "l", "a", "r", "s">>>>],
      [canon |-> <<"Q", "t", "y">>,
       alts  |-> <<<<"q", "t", "y">>,
                  <<"q", "u", "a", "n", "t", "i", "t", "y">>,
                  <<"q", "n", "t">>,
                  <<"m", "e", "t", "e", "r">>,
                  <<"m", "e", "t", "r", "e">>,
                  <<"m", "e", "t", "e", "r", "s">>,
                  <<"m", "t", "r", "s">>,
                  <<"m", "t", "r", "_", "q", "t", "y">>>>],
      [canon |-> <<"M", "T", "R">>,
       alts  |-> <<<<"m", "t", "r">>,
                  <<"m", "e", "t", "e", "r">>,
                  <<"m", "e", "t", "r", "e">>,
                  <<"m", "e", "t", "e", "r", "s">>,
                  <<"q", "t", "y">>>>],
      [canon |-> <<"R", "a", "t", "e">>,
       alts  |-> <<<<"r", "a", "t", "e">>,
                  <<"p", "r", "i", "c", "e">>,
                  <<"p", "e", "r">>,
                  <<"p", "e", "r", "u", "n", "i", "t">>,
                  <<"p", "e", "r", "_", "m", "t", "r">>>>],
      [canon |-> <<"A", "m", "o", "u", "n", "t">>,
       alts  |-> <<<<"a", "m", "o", "u", "n", "t">>,
                  <<"a", "m", "t">>,
                  <<"t", "o", "t", "a", "l">>,
                  <<"s", "u", "b", "t", "o", "t", "a", "l">>,
                  <<"g", "r", "a", "n", "d", "t", "o", "t", "a", "l">>>>],
      [canon |-> <<"T", "a", "x", "a", "b", "l", "e", "_", "A", "m", "o", "u", "n", "t">>,
       alts  |-> <<<<"t", "a", "x", "a", "b", "l", "e", "_", "a", "m", "o", "u", "n", "t">>,
                  <<"t", "a", "x", "a", "b", "l", "e", "a", "m", "o", "u", "n", "t">>,
                  <<"l", "i", "n", "e", "_", "t", "o", "t", "a", "l">>,
                  <<"l", "i", "n", "e", "t", "o", "t", "a", "l">>,
                  <<"t", "o", "t", "a", "l", "a", "m", "o", "u", "n", "t">>>>]
    >>

\* no canonical field
NoCanon == <<"?">>

\* [canon] + alts, line 257
Names(entry) == {entry.canon} \cup {entry.alts[j] : j \in 1..Len(entry.alts)}

\* { _norm_key(x) for x in ([canon] + alts) } of every entry, line 257
NormalNames ==
    [k \in 1..Len(KEY_SYNONYMS) |-> {norm_key(x) : x \in Names(KEY_SYNONYMS[k])}]

\* the loop of lines 256-259 without its break: the last matching field wins
RECURSIVE LastCanon(_, _)
LastCanon(keyn, k) ==
    IF k > Len(KEY_SYNONYMS) THEN NoCanon
    ELSE LET later == LastCanon(keyn, k + 1)
         IN  IF later # NoCanon THEN later
             ELSE IF keyn \in NormalNames[k]
             THEN KEY_SYNONYMS[k].canon
             ELSE NoCanon

\* the loop of lines 256-259 from entry k of KEY_SYNONYMS on: the field of the
\* first entry one of whose normalised names is keyn (break), NoCanon if none
RECURSIVE FirstCanon(_, _)
FirstCanon(keyn, k) ==
    IF k > Len(KEY_SYNONYMS) THEN NoCanon
    ELSE IF keyn \in NormalNames[k]
    THEN KEY_SYNONYMS[k].canon
    ELSE FirstCanon(keyn, k + 1)

\* canon_map, lines 253-259: a dict from the raw headers that match a field
canon_map(raw_header) ==
    [h \in {raw_header[i] : i \in 1..Len(raw_header)}
           \ {x \in {raw_header[i] : i \in 1..Len(raw_header)} :
                 FirstCanon(norm_key(x), 1) = NoCanon}
       |-> FirstCanon(norm_key(h), 1)]

\* d[k] = v on a dict
Put(d, k, v) == [x \in DOMAIN d \cup {k} |-> IF x = k THEN v ELSE d[x]]

\* the empty dict
EmptyDict == <<>>

\* a record that is left as the columns filled it
KeepAsFilled(rec) == rec

\* rec.setdefault(ck, "") for every ck of CANON_KEYS, lines 271-272
SetDefaults(rec) ==
    [ck \in DOMAIN rec \cup {CANON_KEYS[j] : j \in 1..Len(CANON_KEYS)}
       |-> IF ck \in DOMAIN rec THEN rec[ck] ELSE <<>>]

\* a loop that stops one column short of the end of the header
RECURSIVE FillFromShortOfLast(_, _, _, _, _)
FillFromShortOfLast(r, raw_header, cmap, i, rec) ==
    IF i > Len(r) \/ i >= Len(raw_header) THEN rec
    ELSE IF raw_header[i] \in DOMAIN cmap
    THEN FillFromShortOfLast(r, raw_header, cmap, i + 1,
                             Put(rec, cmap[raw_header[i]], r[i]))
    ELSE FillFromShortOfLast(r, raw_header, cmap, i + 1, rec)

\* the loop of lines 264-269 from cell i of row r on
RECURSIVE FillFrom(_, _, _, _, _)
FillFrom(r, raw_header, cmap, i, rec) ==
    IF i > Len(r) \/ i > Len(raw_header) THEN rec
    ELSE IF raw_header[i] \in DOMAIN cmap
    THEN FillFrom(r, raw_header, cmap, i + 1, Put(rec, cmap[raw_header[i]], r[i]))
    ELSE FillFrom(r, raw_header, cmap, i + 1, rec)

\* any(r): some cell of the row is not empty
AnyCell(r) == \E i \in 1..Len(r) : r[i] # <<>>

\* the body of load_challan_rows() on the values of the tab, lines 249-274
ChallanRecords(values) ==
    IF values = <<>> THEN <<>>
    ELSE LET raw_header == values[1]
             cmap == canon_map(raw_header)
             kept == SelectSeq(Tail(values), AnyCell)
         IN  [k \in 1..Len(kept) |->
                 SetDefaults(FillFrom(kept[k], raw_header, cmap, 1, EmptyDict))]

-----------------------------------------------------------------------------
(* The backing spreadsheet and its readers *)

\* the tabs, lines 47-51
ID_TAB_NAME == "ID"

SUPPLIER_TAB_NAME == "Supplier"

CHALLAN_TAB_NAME == "Challan"

INVOICE_TAB_NAME == "Invoice"

PASS_TAB_NAME == "PASS"

TabNames ==
    {ID_TAB_NAME, SUPPLIER_TAB_NAME, CHALLAN_TAB_NAME, INVOICE_TAB_NAME,
     PASS_TAB_NAME}

\* The spreadsheet as the readers meet it:
\*   creds      GOOGLE_SA_JSON and SPREADSHEET_ID are set (_gc, lines 160-161)
\*   reachable  the service answers authorize() and open_by_key()
\*   tabs       the worksheets that exist, each with its values: a sequence
\*              of rows, a row a sequence of cells, a cell a text
\* The specifications of the requests do not look at it.
NoStore == [creds |-> FALSE, reachable |-> FALSE, tabs |-> <<>>]

\* what the last reader returned
NotLoaded == [fn |-> "none", value |-> <<>>]

\* _ws(sheet_name) returns a worksheet, lines 159-168: it raises when an
\* environment variable is missing, when the service or the spreadsheet cannot
\* be reached and when the spreadsheet has no such worksheet
Readable(tab) == store.creds /\ store.reachable /\ tab \in DOMAIN store.tabs

\* ws.get_all_values() of a tab that _ws returned
TabValues(tab) == IF tab \in DOMAIN store.tabs THEN store.tabs[tab] ELSE <<>>

\* idx of lines 176-177: the lowercased, stripped header to its last column
HeaderIndex(header) ==
    LET names == [i \in 1..Len(header) |-> LowerOf(Strip(header[i]))]
        last(h) == CHOOSE i \in 1..Len(header) :
                      /\ names[i] = h
                      /\ \A j \in (i + 1)..Len(header) : names[j] # h
    IN  IF names = <<>> THEN <<>>
        ELSE [h \in {names[i] : i \in 1..Len(header)} |-> last(h)]

\* val(r, name), lines 178-179
val(idx, r, name) ==
    IF LowerOf(name) \in DOMAIN idx /\ idx[LowerOf(name)] <= Len(r)
    THEN Strip(r[idx[LowerOf(name)]])
    ELSE <<>>

\* x or the dash of lines 196-200
OrDash(x) == IF x = <<>> THEN <<"-">> ELSE x

\* the logo of a firm without a link in the sheet: an override or the local
\* file, line 194
FallbackLogo == <<"*">>

\* the profile of lines 187-202 for row r
FirmProfile(idx, r) ==
    LET firm == val(idx, r, <<"f", "i", "r", "m">>)
    IN  [title_name   |-> UpperOf(firm),
         company_name |-> firm,
         addr         |-> val(idx, r, <<"a", "d", "d", "r", "e", "s", "s">>),
         mobile       |-> val(idx, r, <<"n", "u", "m", "b", "e", "r">>),
         gst          |-> val(idx, r, <<"g", "s", "t">>),
         logo         |-> IF val(idx, r, <<"l", "o", "g", "o", "l", "i", "n", "k">>) # <<>>
                          THEN val(idx, r, <<"l", "o", "g", "o", "l", "i", "n", "k">>)
                          ELSE FallbackLogo,
         bank_lines   |->
             << <<"B", "a", "n", "k", ":", " ">> \o OrDash(val(idx, r, <<"b", "a", "n", "k">>)),
                <<"A", "/", "C", " ", "N", "a", "m", "e", ":", " ">> \o OrDash(val(idx, r, <<"a", "c", "c", "o", "u", "n", "t", "_", "n", "a", "m", "e">>)),
                <<"A", "/", "C", " ", "N", "o", ".", ":", " ">> \o OrDash(val(idx, r, <<"a", "c", "c", "o", "u", "n", "t", "_", "n", "u", "m", "b", "e", "r">>)),
                <<"I", "F", "S", "C", ":", " ">> \o OrDash(val(idx, r, <<"i", "f", "s", "c">>)),
                <<"B", "r", "a", "n", "c", "h", ":", " ">> \o OrDash(val(idx, r, <<"b", "r", "a", "n", "c", "h">>)) >>]

\* the loop of lines 181-202 from row k of rows on
RECURSIVE FirmsFrom(_, _, _, _)
FirmsFrom(idx, rows, k, out) ==
    IF k > Len(rows) THEN out
    ELSE IF ~AnyCell(rows[k]) \/ val(idx, rows[k], <<"f", "i", "r", "m">>) = <<>>
    THEN FirmsFrom(idx, rows, k + 1, out)
    ELSE FirmsFrom(idx, rows, k + 1,
                   Put(out, UpperOf(val(idx, rows[k], <<"f", "i", "r", "m">>)),
                       FirmProfile(idx, rows[k])))

\* load_firms(), lines 170-205; ok = FALSE when the read raises
load_firms(rows, ok) ==
    IF ~ok \/ rows = <<>> THEN EmptyDict
    ELSE FirmsFrom(HeaderIndex(rows[1]), rows, 2, EmptyDict)

\* r.get(name, "") on record k of ws.get_all_records(): the cell of row k + 1
\* under the header name, "" without such a column
Field(values, k, name) ==
    IF \E i \in 1..Len(values[1]) : values[1][i] = name /\ i <= Len(values[k + 1])
    THEN values[k + 1][CHOOSE i \in 1..Len(values[1]) :
                           /\ values[1][i] = name /\ i <= Len(values[k + 1])
                           /\ \A j \in 1..Len(values[1]) :
                                 (values[1][j] = name /\ j <= Len(values[k + 1]))
                                     => j <= i]
    ELSE <<>>

\* the number of records of ws.get_all_records()
NRecords(values) == IF values = <<>> THEN 0 ELSE Len(values) - 1

\* the loop of lines 212-220 from record k on
RECURSIVE SuppliersFrom(_, _, _)
SuppliersFrom(values, k, out) ==
    IF k > NRecords(values) THEN out
    ELSE LET code == Strip(Field(values, k, <<"S", "u", "p", "p", "l", "i", "e", "r", " ", "C", "o", "d", "e">>))
         IN  IF code = <<>> THEN SuppliersFrom(values, k + 1, out)
             ELSE SuppliersFrom(values, k + 1,
                    Put(out, code,
                        [name    |-> Strip(Field(values, k, <<"S", "u", "p", "p", "l", "i", "e", "r", " ", "N", "a", "m", "e">>)),
                         gstin   |-> Strip(Field(values, k, <<"S", "u", "p", "p", "l", "i", "e", "r", " ", "G", "S", "T", "I", "N">>)),
                         mobile  |-> Strip(Field(values, k, <<"S", "u", "p", "p", "l", "i", "e", "r", " ", "M", "o", "b", "i", "l", "e">>)),
                         address |-> Strip(Field(values, k, <<"S", "u", "p", "p", "l", "i", "e", "r", " ", "A", "d", "d", "r", "e", "s", "s">>))]))

\* a load_suppliers() whose failed read is not caught
Raised == <<"raised">>

load_suppliers_uncaught(values, ok) ==
    IF ok THEN SuppliersFrom(values, 1, EmptyDict) ELSE Raised

\* load_suppliers(), lines 207-223
load_suppliers(values, ok) ==
    IF ok THEN SuppliersFrom(values, 1, EmptyDict) ELSE EmptyDict

\* the records of a ledger tab with the column the allocator reads
NumberRecords(values, name) ==
    [k \in 1..NRecords(values) |->
        [Challan_Number |-> Field(values, k, name),
         Invoice_Number |-> Field(values, k, name)]]

\* ws.acell("A2").value or "", ws.acell("B2").value or "", lines 310-311
ACell(values, row, col) ==
    IF row <= Len(values) /\ col <= Len(values[row]) THEN values[row][col] ELSE <<>>

\* check_login_from_sheet(username, password), lines 306-314
check_login_from_sheet(values, ok, username, password) ==
    /\ ok
    /\ Strip(username) = Strip(ACell(values, 2, 1))
    /\ Strip(password) = Strip(ACell(values, 2, 2))

\* The readers as steps: each leaves what it returned in loaded.
LoadFirms ==
    /\ loaded' = [fn |-> "load_firms",
                  value |-> load_firms(TabValues(ID_TAB_NAME), Readable(ID_TAB_NAME))]
    /\ UNCHANGED <<challan, invoice, sess, ndocs, prorated, store, user, disk>>

LoadSuppliers ==
    /\ loaded' = [fn |-> "load_suppliers",
                  value |-> load_suppliers(TabValues(SUPPLIER_TAB_NAME),
                                           Readable(SUPPLIER_TAB_NAME))]
    /\ UNCHANGED <<challan, invoice, sess, ndocs, prorated, store, user, disk>>

LoadChallanRows ==
    /\ loaded' = [fn |-> "load_challan_rows",
                  value |-> load_challan_rows(
                                ChallanRecords(TabValues(CHALLAN_TAB_NAME)),
                                Readable(CHALLAN_TAB_NAME))]
    /\ UNCHANGED <<challan, invoice, sess, ndocs, prorated, store, user, disk>>

GetNextInvoiceNumber ==
    /\ loaded' = [fn |-> "get_next_invoice_number",
                  value |-> get_next_invoice_number(
                                NumberRecords(TabValues(INVOICE_TAB_NAME),
                                              <<"I", "n", "v", "o", "i", "c", "e", "_", "N", "u", "m", "b", "e", "r">>),
                                Readable(INVOICE_TAB_NAME))]
    /\ UNCHANGED <<challan, invoice, sess, ndocs, prorated, store, user, disk>>

GetNextChallanNumber ==
    /\ loaded' = [fn |-> "get_next_challan_number",
                  value |-> get_next_challan_number(
                                NumberRecords(TabValues(CHALLAN_TAB_NAME),
                                              <<"C", "h", "a", "l", "l", "a", "n", "_", "N", "u", "m", "b", "e", "r">>),
                                Readable(CHALLAN_TAB_NAME))]
    /\ UNCHANGED <<challan, invoice, sess, ndocs, prorated, store, user, disk>>

CheckLogin(username, password) ==
    /\ loaded' = [fn |-> "check_login_from_sheet",
                  value |-> check_login_from_sheet(TabValues(PASS_TAB_NAME),
                                                   Readable(PASS_TAB_NAME),
                                                   username, password)]
    /\ UNCHANGED <<challan, invoice, sess, ndocs, prorated, store, user, disk>>

-----------------------------------------------------------------------------
(* The ledger tabs as worksheets: the writers of lines 316-400 *)

\* lines 317-321
REQ_CHALLAN_HEADER ==
    << <<"F", "i", "r", "m">>,
       <<"C", "r", "e", "a", "t", "e", "e", "d", "_", "D", "a", "t", "e">>,
       <<"I", "n", "v", "o", "i", "c", "e", "_", "D", "a", "t", "e">>,
       <<"C", "h", "a", "l", "l", "a", "n", "_", "N", "u", "m", "b", "e", "r">>,
       <<"s", "u", "p", "p", "l", "i", "e", "r", "_", "c", "h", "a", "l", "l", "a", "n", "_", "n", "u", "m", "b", "e", "r">>,
       <<"S", "u", "p", "p", "l", "i", "e", "r", " ", "C", "o", "d", "e">>,
       <<"S", "u", "p", "p", "l", "i", "e", "r", "_", "N", "a", "m", "e">>,
       <<"G", "s", "t", "_", "N", "o">>,
       <<"D", "e", "s", "c", "r", "i", "p", "t", "i", "o", "n">>,
       <<"Q", "t", "y">>,
       <<"A", "m", "o", "u", "n", "t">>,
       <<"T", "a", "x", "a", "b", "l", "e", "_", "A", "m", "o", "u", "n", "t">>,
       <<"I", "N", "V", "O", "I", "C", "E", "_", "M", "T", "R">>,
       <<"R", "a", "t", "e">> >>

\* the key of the marker column in idx_lower, lines 355, 370, 389
invoice_mtr == <<"i", "n", "v", "o", "i", "c", "e", "_", "m", "t", "r">>

\* f"{x:.2f}" of a number: the sign of x, then the hundredths it rounds to
TwoDecimals(a) ==
    LET h == Abs(Fmt2(a))
    IN  (IF a.n < 0 THEN <<"-">> ELSE <<>>)
        \o ToStr(h \div 100) \o <<".", DigitChar((h % 100) \div 10), DigitChar(h % 10)>>

\* ws.update("A1", [header]): the cells of row 1 from column A on; the cells
\* of row 1 to the right of the written ones stay
UpdateA1(vals, header) ==
    IF vals = <<>> THEN <<header>>
    ELSE [vals EXCEPT ![1] = header \o SubSeq(vals[1], Len(header) + 1, Len(vals[1]))]

\* header = vals[0] if vals else [], line 325
HeaderOf(vals) == IF vals = <<>> THEN <<>> ELSE vals[1]

\* the header _ensure_challan_header leaves in the sheet, lines 326-334:
\* REQ_CHALLAN_HEADER for an empty header, else the header followed by the
\* required columns whose lowercased name no existing column has
EnsuredHeader(vals) ==
    LET header     == HeaderOf(vals)
        existing_l == {LowerOf(Strip(header[i])) : i \in 1..Len(header)}
        Missing(col) == LowerOf(col) \notin existing_l
    IN  IF header = <<>> THEN REQ_CHALLAN_HEADER
        ELSE header \o SelectSeq(REQ_CHALLAN_HEADER, Missing)

\* _ensure_challan_header calls ws.update, lines 327 and 335-336
HeaderChanged(vals) == EnsuredHeader(vals) # HeaderOf(vals)

\* the loop of lines 351-357 from pair p of row_dict on, which copies the cell
\* of the marker key as well
RECURSIVE RowFromWithMarker(_, _, _, _)
RowFromWithMarker(row_dict, idx_lower, p, row) ==
    IF p > Len(row_dict) THEN row
    ELSE LET k == LowerOf(Strip(row_dict[p][1]))
         IN  IF k = <<>> \/ k \notin DOMAIN idx_lower
             THEN RowFromWithMarker(row_dict, idx_lower, p + 1, row)
             ELSE RowFromWithMarker(row_dict, idx_lower, p + 1,
                                    [row EXCEPT ![idx_lower[k]] = row_dict[p][2]])

\* the loop of lines 351-357 from pair p of row_dict on; row_dict is the
\* sequence of its (key, value) pairs
RECURSIVE RowFrom(_, _, _, _)
RowFrom(row_dict, idx_lower, p, row) ==
    IF p > Len(row_dict) THEN row
    ELSE LET k == LowerOf(Strip(row_dict[p][1]))
         IN  IF k = <<>> \/ k = invoice_mtr \/ k \notin DOMAIN idx_lower
             THEN RowFrom(row_dict, idx_lower, p + 1, row)
             ELSE RowFrom(row_dict, idx_lower, p + 1,
                          [row EXCEPT ![idx_lower[k]] = row_dict[p][2]])

\* the worksheet calls of each writer that may raise; "none": no call raises
ChallanAppendCalls == {"none", "get_all_values", "update", "append_row"}

InvoiceAppendCalls == {"none", "append_row"}

ReconciliationCalls == {"none", "get_all_values", "update", "batch_update"}

\* what a writer leaves behind: the values of the tab and the calls that
\* changed the sheet, in order
Wrote(values, calls) == [values |-> values, calls |-> calls]

\* append_row_to_challan(row_dict), lines 346-360, on a tab holding vals;
\* raises names the worksheet call that raises
append_row_to_challan(vals, row_dict, raises) ==
    LET header  == EnsuredHeader(vals)
        changed == HeaderChanged(vals)
        healed  == IF changed THEN UpdateA1(vals, header) ELSE vals
        update  == IF changed THEN <<"update">> ELSE <<>>
        idx_lower == HeaderIndex(header)
        row     == RowFrom(row_dict, idx_lower, 1, [i \in 1..Len(header) |-> <<>>])
    IN  CASE raises \in {"_ws", "get_all_values"} -> Wrote(vals, <<>>)
          [] raises = "update" /\ changed         -> Wrote(vals, <<>>)
          [] raises = "append_row"                -> Wrote(healed, update)
          [] OTHER -> Wrote(Append(healed, row), Append(update, "append_row"))

\* append_row_to_invoice(row_values), lines 340-344
append_row_to_invoice(vals, row_values, raises) ==
    IF raises \in {"_ws", "append_row"} THEN Wrote(vals, <<>>)
    ELSE Wrote(Append(vals, row_values), <<"append_row">>)

\* the cells of a sheet row that lines 382-385 read through get()
RowView(idx_lower, row) ==
    [Firm           |-> val(idx_lower, row, <<"F", "i", "r", "m">>),
     Supplier_Code  |-> val(idx_lower, row, <<"S", "u", "p", "p", "l", "i", "e", "r", " ", "C", "o", "d", "e">>),
     Challan_Number |-> val(idx_lower, row, <<"C", "h", "a", "l", "l", "a", "n", "_", "N", "u", "m", "b", "e", "r">>),
     Description    |-> val(idx_lower, row, <<"D", "e", "s", "c", "r", "i", "p", "t", "i", "o", "n">>)]

\* the updates list of lines 376-391 from sheet row row_num on
RECURSIVE SheetUpdates(_, _, _, _, _, _)
SheetUpdates(all_values, idx_lower, row_num, company_name, supplier_code, items) ==
    IF row_num > Len(all_values) THEN <<>>
    ELSE LET m    == FirstMatch(RowView(idx_lower, all_values[row_num]),
                                company_name, supplier_code, items)
             rest == SheetUpdates(all_values, idx_lower, row_num + 1,
                                  company_name, supplier_code, items)
         IN  IF m = 0 THEN rest
             ELSE <<[row |-> row_num, col |-> idx_lower[invoice_mtr],
                     val |-> TwoDecimals(items[m].q)]>> \o rest

\* a write of one cell that blanks the rest of its row
SetCellOnly(vals, u) ==
    [vals EXCEPT ![u.row] = [i \in 1..u.col |-> IF i = u.col THEN u.val ELSE <<>>]]

\* one range of ws.batch_update: the cell at (u.row, u.col); a row that ends
\* before the column is filled with empty cells up to it
SetCell(vals, u) ==
    LET old == vals[u.row]
        n   == IF Len(old) > u.col THEN Len(old) ELSE u.col
    IN  [vals EXCEPT ![u.row] =
            [i \in 1..n |-> IF i = u.col THEN u.val
                            ELSE IF i <= Len(old) THEN old[i] ELSE <<>>]]

\* ws.batch_update(data), lines 393-398
RECURSIVE BatchUpdate(_, _)
BatchUpdate(vals, updates) ==
    IF updates = <<>> THEN vals
    ELSE BatchUpdate(SetCell(vals, Head(updates)), Tail(updates))

\* write_invoice_mtr_to_challan(company_name, supplier_code, items), lines
\* 362-400, on a tab holding all_values
write_invoice_mtr_to_challan(all_values, company_name, supplier_code, items, raises) ==
    LET stripped == [i \in 1..Len(all_values[1]) |-> Strip(all_values[1][i])]
        lacks    == invoice_mtr \notin DOMAIN HeaderIndex(stripped)
        header   == IF lacks THEN Append(stripped, <<"I", "N", "V", "O", "I", "C", "E", "_", "M", "T", "R">>) ELSE stripped
        written  == IF lacks THEN UpdateA1(all_values, header) ELSE all_values
        update   == IF lacks THEN <<"update">> ELSE <<>>
        idx_lower == HeaderIndex(header)
        updates  == SheetUpdates(all_values, idx_lower, 2,
                                 company_name, supplier_code, items)
    IN  CASE raises \in {"_ws", "get_all_values"} \/ all_values = <<>>
                                         -> Wrote(all_values, <<>>)
          [] raises = "update" /\ lacks  -> Wrote(all_values, <<>>)
          [] updates = <<>>              -> Wrote(written, update)
          [] raises = "batch_update"     -> Wrote(written, update)
          [] OTHER -> Wrote(BatchUpdate(written, updates), Append(update, "batch_update"))

\* the call that raises when the writer runs: _ws raises on a spreadsheet
\* that cannot be opened, whatever else would
Raising(tab, raises) == IF Readable(tab) THEN raises ELSE "_ws"

\* One call of append_row_to_challan; the last writer, its arguments and the
\* calls it made are kept in loaded
AppendRowToChallan(row_dict, raises) ==
    LET w == append_row_to_challan(TabValues(CHALLAN_TAB_NAME), row_dict,
                                   Raising(CHALLAN_TAB_NAME, raises))
    IN  /\ store' = IF w.calls = <<>> THEN store
                    ELSE [store EXCEPT !.tabs[CHALLAN_TAB_NAME] = w.values]
        /\ loaded' = [fn |-> "append_row_to_challan",
                      value |-> [calls |-> w.calls, args |-> <<row_dict>>]]
        /\ UNCHANGED <<challan, invoice, sess, ndocs, prorated, user, disk>>

\* One call of append_row_to_invoice
AppendRowToInvoice(row_values, raises) ==
    LET w == append_row_to_invoice(TabValues(INVOICE_TAB_NAME), row_values,
                                   Raising(INVOICE_TAB_NAME, raises))
    IN  /\ store' = IF w.calls = <<>> THEN store
                    ELSE [store EXCEPT !.tabs[INVOICE_TAB_NAME] = w.values]
        /\ loaded' = [fn |-> "append_row_to_invoice",
                      value |-> [calls |-> w.calls, args |-> <<row_values>>]]
        /\ UNCHANGED <<challan, invoice, sess, ndocs, prorated, user, disk>>

\* One call of write_invoice_mtr_to_challan
WriteInvoiceMtrToChallan(company_name, supplier_code, items, raises) ==
    LET w == write_invoice_mtr_to_challan(TabValues(CHALLAN_TAB_NAME), company_name,
                                          supplier_code, items,
                                          Raising(CHALLAN_TAB_NAME, raises))
    IN  /\ store' = IF w.calls = <<>> THEN store
                    ELSE [store EXCEPT !.tabs[CHALLAN_TAB_NAME] = w.values]
        /\ loaded' = [fn |-> "write_invoice_mtr_to_challan",
                      value |-> [calls |-> w.calls,
                                 args |-> <<company_name, supplier_code, items>>]]
        /\ UNCHANGED <<challan, invoice, sess, ndocs, prorated, user, disk>>

-----------------------------------------------------------------------------
(* PDF helpers: _wrap and _num_words, lines 416-457 *)

\* str.split(): the maximal runs of characters other than spaces, in order
Split(s) ==
    LET starts == {i \in 1..Len(s) : ~IsSpace(s[i]) /\ (i = 1 \/ IsSpace(s[i - 1]))}
        start(k) == CHOOSE i \in starts : Cardinality({j \in starts : j < i}) = k - 1
        end(i) == CHOOSE j \in i..Len(s) :
                      /\ \A m \in i..j : ~IsSpace(s[m])
                      /\ (j = Len(s) \/ IsSpace(s[j + 1]))
    IN  [k \in 1..Cardinality(starts) |-> SubSeq(s, start(k), end(start(k)))]

\* " ".join(words)
RECURSIVE Join(_)
Join(words) ==
    IF words = <<>> THEN <<>>
    ELSE IF Len(words) = 1 THEN words[1]
    ELSE Join(SubSeq(words, 1, Len(words) - 1)) \o <<" ">> \o words[Len(words)]

\* lines 438-441; units[x] of the code is units[x + 1] here
units ==
    << <<>>, <<"O", "n", "e">>, <<"T", "w", "o">>,
       <<"T", "h", "r", "e", "e">>, <<"F", "o", "u", "r">>,
       <<"F", "i", "v", "e">>, <<"S", "i", "x">>, <<"S", "e", "v", "e", "n">>,
       <<"E", "i", "g", "h", "t">>, <<"N", "i", "n", "e">>, <<"T", "e", "n">>,
       <<"E", "l", "e", "v", "e", "n">>, <<"T", "w", "e", "l", "v", "e">>,
       <<"T", "h", "i", "r", "t", "e", "e", "n">>,
       <<"F", "o", "u", "r", "t", "e", "e", "n">>,
       <<"F", "i", "f", "t", "e", "e", "n">>,
       <<"S", "i", "x", "t", "e", "e", "n">>,
       <<"S", "e", "v", "e", "n", "t", "e", "e", "n">>,
       <<"E", "i", "g", "h", "t", "e", "e", "n">>,
       <<"N", "i", "n", "e", "t", "e", "e", "n">> >>

tens ==
    << <<>>, <<"T", "e", "n">>, <<"T", "w", "e", "n", "t", "y">>,
       <<"T", "h", "i", "r", "t", "y">>, <<"F", "o", "r", "t", "y">>,
       <<"F", "i", "f", "t", "y">>, <<"S", "i", "x", "t", "y">>,
       <<"S", "e", "v", "e", "n", "t", "y">>,
       <<"E", "i", "g", "h", "t", "y">>, <<"N", "i", "n", "e", "t", "y">> >>

\* the IndexError of units[h] for h >= 20, line 446
IndexError == [raised |-> TRUE, text |-> <<>>]

Returned(text) == [raised |-> FALSE, text |-> text]

\* two(x), lines 442-443, for 0 <= x < 100
two(x) ==
    IF x < 20 THEN units[x + 1]
    ELSE tens[(x \div 10) + 1] \o (IF x % 10 # 0 THEN <<" ">> \o units[(x % 10) + 1] ELSE <<>>)

\* three(x), lines 444-446, for x with x // 100 < 20
three(x) ==
    LET h == x \div 100
        r == x % 100
    IN  IF h # 0 /\ r # 0 THEN Strip(units[h + 1] \o <<" ", "H", "u", "n", "d", "r", "e", "d", " ">> \o two(r))
        ELSE IF h # 0 THEN units[h + 1] \o <<" ", "H", "u", "n", "d", "r", "e", "d">>
        ELSE two(r)

\* three(x) raises: units has 20 entries
ThreeRaises(x) == x \div 100 >= Len(units)

\* " ".join(s.split()), line 455
SingleSpaced(s) == Join(Split(s))

\* _num_words(n), lines 437-455, for n = cr * 10^7 + low with low < 10^7: the
\* number is kept as the two parts that line 448 makes of it, for n is beyond
\* the 32-bit integers in the cases of interest
num_words(cr, low) ==
    LET la == low \div 100000
        th == (low % 100000) \div 1000
        n  == low % 1000
        s  == (IF cr # 0 THEN three(cr) \o <<" ", "C", "r", "o", "r", "e", " ">> ELSE <<>>)
              \o (IF la # 0 THEN three(la) \o <<" ", "L", "a", "k", "h", " ">> ELSE <<>>)
              \o (IF th # 0 THEN three(th) \o <<" ", "T", "h", "o", "u", "s", "a", "n", "d", " ">> ELSE <<>>)
              \o (IF n # 0 THEN three(n) ELSE <<>>)
    IN  IF cr = 0 /\ low = 0 THEN Returned(<<"Z", "e", "r", "o">>)
        ELSE IF cr # 0 /\ ThreeRaises(cr) THEN IndexError
        ELSE Returned(SingleSpaced(s))

\* the glyph widths of Helvetica in thousandths of the font size
GlyphWidth(c) ==
    CASE c = " " -> 278 [] c = "i" -> 222 [] c = "m" -> 833 [] OTHER -> 556

\* size=9, line 416
WrapFontSize == 9

\* the width of characters lo..hi of test
RECURSIVE WidthOf(_, _, _)
WidthOf(test, lo, hi) ==
    IF lo > hi THEN 0
    ELSE IF lo = hi THEN GlyphWidth(test[lo]) * WrapFontSize
    ELSE WidthOf(test, lo, (lo + hi) \div 2) + WidthOf(test, ((lo + hi) \div 2) + 1, hi)

\* pdfmetrics.stringWidth(test, font, size), in thousandths of a point
stringWidth(test) == WidthOf(test, 1, Len(test))

\* a test that leaves the joining spaces out of the width
FitsWithoutSpaces(test, max_width) ==
    stringWidth(SelectSeq(test, LAMBDA c : ~IsSpace(c))) <= max_width

\* line 423: the test line fits
Fits(test, max_width) == stringWidth(test) <= max_width

\* .replace("\r"," ").replace("\n"," "), line 417
Unbroken(text) == [i \in 1..Len(text) |-> IF text[i] \in {"\r", "\n"} THEN " " ELSE text[i]]

\* the loop of lines 421-427 from word k on
RECURSIVE WrapFrom(_, _, _, _, _)
WrapFrom(words, k, lines, line, max_width) ==
    IF k > Len(words) THEN (IF line # <<>> THEN Append(lines, line) ELSE lines)
    ELSE LET test == Strip(line \o <<" ">> \o words[k])
         IN  IF Fits(test, max_width)
             THEN WrapFrom(words, k + 1, lines, test, max_width)
             ELSE WrapFrom(words, k + 1,
                           IF line # <<>> THEN Append(lines, line) ELSE lines,
                           words[k], max_width)

\* _wrap(text, max_width), lines 416-428; max_width in thousandths of a point
wrap(text, max_width) ==
    LET t == Strip(Unbroken(text))
    IN  IF t = <<>> THEN << <<>> >>
        ELSE WrapFrom(Split(t), 1, <<>>, <<>>, max_width)

\* One call of _num_words and one of _wrap on the arguments held in loaded
NumWords ==
    /\ loaded.fn = "args" /\ loaded.value.f = "_num_words"
    /\ loaded' = [fn |-> "_num_words",
                  value |-> [cr |-> loaded.value.cr, low |-> loaded.value.low,
                             words |-> num_words(loaded.value.cr, loaded.value.low)]]
    /\ UNCHANGED <<challan, invoice, sess, ndocs, prorated, store, user, disk>>

Wrap ==
    /\ loaded.fn = "args" /\ loaded.value.f = "_wrap"
    /\ loaded' = [fn |-> "_wrap",
                  value |-> [text |-> loaded.value.text,
                             max_width |-> loaded.value.max_width,
                             lines |-> wrap(loaded.value.text, loaded.value.max_width)]]
    /\ UNCHANGED <<challan, invoice, sess, ndocs, prorated, store, user, disk>>

-----------------------------------------------------------------------------
(* Requests *)

\* the browsers (pages) that issue requests
Sessions == {"u1", "u2"}

\* A session is a page in a browser plus the request it has in flight.
\*   pc       "idle", or the page shown ("challan_form", "invoice_form"), or the
\*            position of the POST handler in flight
\*   next_no  the number field of the page, rendered from next_no at GET;
\*            the form is reset to it after every submission (e.target.reset())
\*   readAt   number of rows the ledger held when next_no was read, -1 when
\*            the read failed (history)
\*   page     CHALLAN_ROWS of the invoice page
\*   resp     what the page received for its last submission
\*   doc .. updates   locals of the POST handler in flight; form is the
\*            submitted lines (the lists of lines 1301-1303 / 1388-1391),
\*            data the document rendered into buf
NoRequest ==
    [doc |-> 0, firm |-> <<>>, scode |-> <<>>, no |-> <<>>, form |-> <<>>,
     items |-> <<>>, discount |-> Zero, i |-> 0, updates |-> <<>>,
     data |-> NoDocument]

IdleSession ==
    [pc |-> "idle", next_no |-> <<>>, readAt |-> 0, page |-> <<>>,
     resp |-> NoResponse, req |-> NoRequest]

DocsCreated == ndocs.challan + ndocs.invoice

PageShown(s) == sess[s].pc \in {"idle", "challan_form", "invoice_form"}

\* GET /challan, lines 1276-1282
GetChallan(s, ok) ==
    /\ PageShown(s)
    /\ sess' = [sess EXCEPT ![s] =
                  [IdleSession EXCEPT !.pc = "challan_form",
                                      !.next_no = get_next_challan_number(challan, ok),
                                      !.readAt = IF ok THEN Len(challan) ELSE -1]]
    /\ UNCHANGED <<challan, invoice, ndocs, prorated, store, loaded, user, disk>>

\* POST /challan up to the rendering of the document, lines 1284-1325; with
\* no valid item the message is flashed and the request redirected (line 1315).
\* The page's fetch() for this submission has no response yet.
PostChallan(s, firm, party_code, raw) ==
    /\ sess[s].pc = "challan_form"
    /\ DocsCreated < MaxDocs
    /\ LET items == ChallanItems(raw)
       IN  IF items = <<>>
           THEN /\ sess' = [sess EXCEPT ![s].pc = "challan_rejected",
                                        ![s].resp = Redirected,
                                        ![s].req = [NoRequest EXCEPT !.form = raw]]
                /\ UNCHANGED ndocs
           ELSE /\ sess' = [sess EXCEPT ![s].pc = "challan_append",
                                        ![s].resp = NoResponse,
                                        ![s].req = [NoRequest EXCEPT
                                            !.doc = ndocs.challan + 1,
                                            !.firm = firm,
                                            !.scode = party_code,
                                            !.no = ChallanNo(sess[s].next_no),
                                            !.form = raw,
                                            !.items = items,
                                            !.data = draw_challan_pdf(
                                                         Take(items, CH_MAX_ROWS)),
                                            !.i = 1]]
                /\ ndocs' = [ndocs EXCEPT !.challan = @ + 1]
    /\ UNCHANGED <<challan, invoice, prorated, store, loaded, user, disk>>

\* one turn of the loop of lines 1328-1344: append_row_to_challan(row_dict);
\* ok = FALSE when the append raises ("Append Challan failed").  After the last
\* row the response is sent and the page resets its form.
AppendChallanRow(s, ok) ==
    /\ sess[s].pc = "challan_append"
    /\ LET r == sess[s].req
       IN  /\ challan' = IF ok
                         THEN Append(challan,
                                     ChallanRow(r.doc, r.firm, r.scode, r.no, r.items[r.i]))
                         ELSE challan
           /\ sess' = IF r.i < Len(r.items)
                      THEN [sess EXCEPT ![s].req.i = r.i + 1]
                      ELSE [sess EXCEPT ![s].pc = "challan_form",
                                        ![s].resp = Sent(r.data),
                                        ![s].req = NoRequest]
    /\ UNCHANGED <<invoice, ndocs, prorated, store, loaded, user, disk>>

\* The redirect of a rejected submission (lines 1315, 1404) is followed by the
\* page's fetch(); the page itself is not reloaded and resets its form.
FollowRedirect(s) ==
    /\ sess[s].pc \in {"challan_rejected", "invoice_rejected"}
    /\ sess' = [sess EXCEPT ![s].pc =
                  IF sess[s].pc = "challan_rejected" THEN "challan_form" ELSE "invoice_form",
                            ![s].req = NoRequest]
    /\ UNCHANGED <<challan, invoice, ndocs, prorated, store, loaded, user, disk>>

\* GET /invoice, lines 1357-1369
GetInvoice(s, okRows, okNo) ==
    /\ PageShown(s)
    /\ sess' = [sess EXCEPT ![s] =
                  [IdleSession EXCEPT !.pc = "invoice_form",
                                      !.next_no = get_next_invoice_number(invoice, okNo),
                                      !.readAt = IF okNo THEN Len(invoice) ELSE -1,
                                      !.page = load_challan_rows(challan, okRows)]]
    /\ UNCHANGED <<challan, invoice, ndocs, prorated, store, loaded, user, disk>>

\* POST /invoice up to the rendering of the document, lines 1370-1408
SubmitInvoice(s, firm, sup_code, discount, raw) ==
    /\ sess[s].pc = "invoice_form"
    /\ DocsCreated < MaxDocs
    /\ LET items == InvoiceItems(raw)
       IN  IF items = <<>>
           THEN /\ sess' = [sess EXCEPT ![s].pc = "invoice_rejected",
                                        ![s].resp = Redirected,
                                        ![s].req = [NoRequest EXCEPT !.form = raw]]
                /\ UNCHANGED ndocs
           ELSE /\ sess' = [sess EXCEPT ![s].pc = "invoice_append",
                                        ![s].resp = NoResponse,
                                        ![s].req = [NoRequest EXCEPT
                                            !.doc = ndocs.invoice + 1,
                                            !.firm = firm,
                                            !.scode = sup_code,
                                            !.no = InvoiceNo(sess[s].next_no),
                                            !.form = raw,
                                            !.items = items,
                                            !.discount = discount,
                                            !.data = draw_invoice_pdf(
                                                         Take(items, INV_MAX_ROWS),
                                                         discount),
                                            !.i = 1]]
                /\ ndocs' = [ndocs EXCEPT !.invoice = @ + 1]
    /\ UNCHANGED <<challan, invoice, store, loaded, user, disk>>

\* POST /invoice, the totals of lines 1411-1416 not followed in binary64
PostInvoice(s, firm, sup_code, discount, raw) ==
    /\ SubmitInvoice(s, firm, sup_code, discount, raw)
    /\ UNCHANGED prorated

\* POST /invoice, with the totals and the per-row amounts of lines 1411-1421
\* as the handler computes them in binary64
FloatInvoice(s, firm, sup_code, discount, raw) ==
    /\ SubmitInvoice(s, firm, sup_code, discount, raw)
    /\ prorated' = IF InvoiceItems(raw) = <<>> THEN prorated
                   ELSE Prorate(InvoiceItems(raw), discount)

\* NoResponse but for its kind: the request failed and sent no document
Failed == [NoResponse EXCEPT !.kind = "error"]

\* a loop whose failed append fails the request
AppendInvoiceRowOrFail(s, ok) ==
    /\ sess[s].pc = "invoice_append"
    /\ LET r == sess[s].req
       IN  /\ invoice' = IF ok
                         THEN Append(invoice,
                                     InvoiceRow(r.doc, r.firm, r.scode, r.no,
                                                r.items, r.discount, r.i))
                         ELSE invoice
           /\ sess' = IF ~ok
                      THEN [sess EXCEPT ![s].pc = "invoice_form", ![s].resp = Failed,
                                        ![s].req = NoRequest]
                      ELSE IF r.i < Len(r.items)
                      THEN [sess EXCEPT ![s].req.i = r.i + 1]
                      ELSE [sess EXCEPT ![s].pc = "recon_read", ![s].req.i = 0]
    /\ UNCHANGED <<challan, ndocs, prorated, store, loaded, user, disk>>

\* one turn of the loop of lines 1418-1446: append_row_to_invoice([...])
AppendInvoiceRow(s, ok) ==
    /\ sess[s].pc = "invoice_append"
    /\ LET r == sess[s].req
       IN  /\ invoice' = IF ok
                         THEN Append(invoice,
                                     InvoiceRow(r.doc, r.firm, r.scode, r.no,
                                                r.items, r.discount, r.i))
                         ELSE invoice
           /\ sess' = IF r.i < Len(r.items)
                      THEN [sess EXCEPT ![s].req.i = r.i + 1]
                      ELSE [sess EXCEPT ![s].pc = "recon_read", ![s].req.i = 0]
    /\ UNCHANGED <<challan, ndocs, prorated, store, loaded, user, disk>>

\* write_invoice_mtr_to_challan, lines 363-391: the read of the challan sheet
\* and the computation of the updates; ok = FALSE when the read raises.  With
\* no update there is no write (line 393) and the response is sent.
ReconRead(s, ok) ==
    /\ sess[s].pc = "recon_read"
    /\ LET r   == sess[s].req
           upd == IF ok THEN ReconUpdates(challan, 1, r.firm, r.scode, r.items) ELSE <<>>
       IN  sess' = IF upd = <<>>
                   THEN [sess EXCEPT ![s].pc = "invoice_form",
                                     ![s].resp = Sent(r.data),
                                     ![s].req = NoRequest]
                   ELSE [sess EXCEPT ![s].pc = "recon_write", ![s].req.updates = upd]
    /\ UNCHANGED <<challan, invoice, ndocs, prorated, store, loaded, user, disk>>

\* lines 393-398: ws.batch_update(data); ok = FALSE when it raises.  Then the
\* response is sent (line 1455) and the page resets its form.
ReconWrite(s, ok) ==
    /\ sess[s].pc = "recon_write"
    /\ challan' = IF ok THEN ApplyUpdates(challan, sess[s].req.updates) ELSE challan
    /\ sess' = [sess EXCEPT ![s].pc = "invoice_form",
                            ![s].resp = Sent(sess[s].req.data),
                            ![s].req = NoRequest]
    /\ UNCHANGED <<invoice, ndocs, prorated, store, loaded, user, disk>>

\* a handler that appends the lines of the form and renders afterwards
PostChallanFailsAfterAppend(s, firm, party_code, raw) ==
    /\ sess[s].pc = "challan_form"
    /\ ChallanItems(raw) # <<>>
    /\ challan' = Append(challan,
                         ChallanRow(ndocs.challan + 1, firm, party_code,
                                    ChallanNo(sess[s].next_no), ChallanItems(raw)[1]))
    /\ sess' = [sess EXCEPT ![s].resp = Failed, ![s].req = NoRequest]
    /\ UNCHANGED <<invoice, ndocs, prorated, store, loaded, user, disk>>

\* POST /challan when draw_challan_pdf raises, lines 1317-1325: the handler
\* ends there, before the loop of line 1328, and the page receives the error
PostChallanRenderFails(s, firm, party_code, raw) ==
    /\ sess[s].pc = "challan_form"
    /\ ChallanItems(raw) # <<>>
    /\ sess' = [sess EXCEPT ![s].resp = Failed, ![s].req = NoRequest]
    /\ UNCHANGED <<challan, invoice, ndocs, prorated, store, loaded, user, disk>>

\* POST /invoice when draw_invoice_pdf raises, lines 1406-1408: the handler
\* ends there, before the loop of line 1418
PostInvoiceRenderFails(s, firm, sup_code, discount, raw) ==
    /\ sess[s].pc = "invoice_form"
    /\ InvoiceItems(raw) # <<>>
    /\ sess' = [sess EXCEPT ![s].resp = Failed, ![s].req = NoRequest]
    /\ UNCHANGED <<challan, invoice, ndocs, prorated, store, loaded, user, disk>>

-----------------------------------------------------------------------------
(* Session users and output files *)

\* session.get("user") of each browser session; empty when there is none
NoUser == [s \in Sessions |-> <<>>]

\* session.get("user") is truthy, line 408
LoggedIn(s) == user[s] # <<>>

\* return redirect(url_for("login")), line 409: the view does not run; page
\* is what the browser shows afterwards (the login page after a GET, the
\* page that sent the fetch() after a POST)
RedirectToLogin(s, page) ==
    /\ PageShown(s)
    /\ sess' = [sess EXCEPT ![s] = [page EXCEPT !.resp = Redirected]]
    /\ UNCHANGED <<challan, invoice, ndocs, prorated, store, loaded, user, disk>>

\* a decorator that lets every request through
login_not_required(s, View, page) == View

\* @login_required, lines 405-411, around a view
login_required(s, View, page) ==
    IF LoggedIn(s) THEN View ELSE RedirectToLogin(s, page)

\* POST /login, lines 1247-1255
login(s, username, password) ==
    /\ PageShown(s)
    /\ LET usr == Strip(username)
           pwd == Strip(password)
           ok  == check_login_from_sheet(TabValues(PASS_TAB_NAME),
                                         Readable(PASS_TAB_NAME), usr, pwd)
       IN  /\ user' = IF ok THEN [user EXCEPT ![s] = usr] ELSE user
           /\ sess' = [sess EXCEPT ![s] =
                         [IdleSession EXCEPT !.resp = IF ok THEN Redirected ELSE NoResponse]]
           /\ loaded' = [fn |-> "login",
                         value |-> [s |-> s, user |-> usr, pwd |-> pwd, ok |-> ok]]
    /\ UNCHANGED <<challan, invoice, ndocs, prorated, store, disk>>

\* GET /logout, lines 1257-1259, from the page of the session (which then
\* shows the login page) or from another tab of the browser
logout(s, same_tab) ==
    /\ same_tab => PageShown(s)
    /\ user' = [user EXCEPT ![s] = <<>>]
    /\ sess' = IF same_tab
               THEN [sess EXCEPT ![s] = [IdleSession EXCEPT !.resp = Redirected]]
               ELSE sess
    /\ loaded' = [fn |-> "logout", value |-> [s |-> s]]
    /\ UNCHANGED <<challan, invoice, ndocs, prorated, store, disk>>

\* the view of GET /dashboard, lines 1263-1267
DashboardView(s) ==
    /\ PageShown(s)
    /\ sess' = [sess EXCEPT ![s] = IdleSession]
    /\ UNCHANGED <<challan, invoice, ndocs, prorated, store, loaded, user, disk>>

\* the routes of lines 1261-1262, 1270-1271 and 1354-1355
dashboard(s) == login_required(s, DashboardView(s), IdleSession)

get_challan(s, ok) == login_required(s, GetChallan(s, ok), IdleSession)

post_challan(s, firm, party_code, raw) ==
    login_required(s, PostChallan(s, firm, party_code, raw), sess[s])

get_invoice(s, okRows, okNo) ==
    login_required(s, GetInvoice(s, okRows, okNo), IdleSession)

post_invoice(s, firm, sup_code, discount, raw) ==
    login_required(s, PostInvoice(s, firm, sup_code, discount, raw), sess[s])

\* The server outside the spreadsheet:
\*   now       the clock, in seconds
\*   save_dir  SAVE_DIR is set (lines 42-44)
\*   saved     the files under SAVE_DIR, path to content
\*   cwd       the names that exist in the working directory
\* The specifications of the requests do not look at it.
NoDisk == [now |-> 0, save_dir |-> FALSE, saved |-> <<>>, cwd |-> {}]

\* a character that [^A-Za-z0-9_]+ leaves in place
IsNameChar(c) ==
    c \in DOMAIN ToLower \/ c \in DOMAIN ToUpper \/ c \in DecimalChars \/ c = "_"

\* the texts of a sequence of texts, one after the other
RECURSIVE Flatten(_)
Flatten(parts) ==
    IF parts = <<>> THEN <<>>
    ELSE Flatten(SubSeq(parts, 1, Len(parts) - 1)) \o parts[Len(parts)]

\* re.sub(pattern+, '_', t) for the characters that Keeps() rejects: each run
\* of them becomes one underscore
Collapse(t, Keeps(_)) ==
    Flatten([i \in 1..Len(t) |->
                IF Keeps(t[i]) THEN <<t[i]>>
                ELSE IF i = 1 \/ Keeps(t[i - 1]) THEN <<"_">>
                ELSE <<>>])

\* re.sub(r'[^A-Za-z0-9_]+', '_', (name or default).strip().replace(' ', '_')),
\* lines 1347 and 1451
SafeName(name, default) ==
    LET t == Strip(IF name = <<>> THEN default ELSE name)
    IN  Collapse([i \in 1..Len(t) |-> IF t[i] = " " THEN "_" ELSE t[i]], IsNameChar)

\* _firm_dir_name(name), lines 111-112
firm_dir_name(name) ==
    LET NotSpace(c) == ~IsSpace(c)
    IN  Collapse(Strip(name), NotSpace)

\* strftime("%Y%m%d-%H%M%S") of the clock: one text for each second
Timestamp(now) == ToStr(now)

\* dl_name of lines 1348 and 1452
DlName(no, safe, timestamp) ==
    no \o <<"_">> \o safe \o <<"_">> \o timestamp \o <<".", "p", "d", "f">>

\* path of lines 519-522, below SAVE_DIR
SavePath(kind, firm_name, filename) ==
    <<kind, firm_dir_name(IF firm_name = <<>> THEN <<"U", "n", "k", "n", "o", "w", "n">> ELSE firm_name), filename>>

\* open(path, "wb") and f.write(data_bytes), lines 523-524: the file at path
\* holds data_bytes, whatever it held
Saved(saved, path, data_bytes) ==
    [q \in DOMAIN saved \cup {path} |-> IF q = path THEN data_bytes ELSE saved[q]]

\* _save_copy(kind, firm_name, filename, data_bytes), lines 516-527; ok =
\* FALSE when makedirs or open raises
save_copy(kind, firm_name, filename, data_bytes, ok) ==
    IF ~disk.save_dir \/ ~ok THEN disk.saved
    ELSE Saved(disk.saved, SavePath(kind, firm_name, filename), data_bytes)

\* the loop of lines 433-434 from i on; base = stem + ".pdf"
RECURSIVE UniqueFrom(_, _, _)
UniqueFrom(stem, i, exists) ==
    IF stem \o <<"_">> \o ToStr(i) \o <<".", "p", "d", "f">> \in exists
    THEN UniqueFrom(stem, i + 1, exists)
    ELSE stem \o <<"_">> \o ToStr(i) \o <<".", "p", "d", "f">>

\* _unique_name(base), lines 430-435, for a base that ends in ".pdf"; exists
\* holds the names for which os.path.exists is true
unique_name(base, exists) ==
    IF base \in exists THEN UniqueFrom(SubSeq(base, 1, Len(base) - 4), 1, exists)
    ELSE base

\* The end of POST /challan, lines 1346-1351, and of POST /invoice, lines
\* 1450-1455, for the document of a request: the copy on the disk and the
\* name of the download.  loaded keeps what was sent.
SendDocument(kind, firm_name, no, name, default, ok) ==
    /\ DocsCreated < MaxDocs
    /\ LET dl_name == DlName(no, SafeName(name, default), Timestamp(disk.now))
           doc     == DocsCreated + 1
       IN  /\ disk' = [disk EXCEPT !.saved = save_copy(kind, firm_name, dl_name,
                                                       [kind |-> kind, doc |-> doc], ok)]
           /\ loaded' = [fn |-> "send_file",
                         value |-> [dl_name |-> dl_name,
                                    path |-> SavePath(kind, firm_name, dl_name),
                                    doc |-> doc,
                                    saves |-> disk.save_dir /\ ok,
                                    download_name |-> unique_name(dl_name, disk.cwd)]]
    /\ ndocs' = [ndocs EXCEPT ![kind] = @ + 1]
    /\ UNCHANGED <<challan, invoice, sess, prorated, store, user>>

SendChallan(firm_name, ch_no, party_name, ok) ==
    SendDocument("challan", firm_name, ch_no, party_name, <<"P", "a", "r", "t", "y">>, ok)

SendInvoice(firm_name, inv_no, sup_name, ok) ==
    SendDocument("invoice", firm_name, inv_no, sup_name, <<"S", "u", "p", "p", "l", "i", "e", "r">>, ok)

\* a second passes
Tick ==
    /\ disk' = [disk EXCEPT !.now = @ + 1]
    /\ UNCHANGED <<challan, invoice, sess, ndocs, prorated, store, loaded, user>>

-----------------------------------------------------------------------------
(* Inputs *)

Num(n, d) == [ok |-> TRUE, v |-> Rat(n, d)]

\* float() raised
NotANumber == [ok |-> FALSE, v |-> Zero]

FirmA == <<"A">>

SupplierP == <<"P">>

SupplierQ == <<"Q">>

Silk == <<"s">>

Wool == <<"w">>

\* challan forms submitted in Spec: one or two lines of the same description
\* (quantities 1.00 and 1.01), or a single line that validation drops
SpecChallanForms ==
    { <<[desc |-> Silk, q |-> Num(1, 1), r |-> Num(10, 1)]>>,
      <<[desc |-> Silk, q |-> Num(1, 1), r |-> Num(10, 1)],
        [desc |-> Silk, q |-> Num(101, 100), r |-> Num(10, 1)]>>,
      <<[desc |-> Silk, q |-> Num(0, 1), r |-> Num(10, 1)]>> }

\* invoice lines typed by hand in Spec
SpecTypedInvoiceForms ==
    { <<[ch |-> <<"1">>, desc |-> Silk, q |-> Num(2, 1), r |-> Num(10, 1)]>>,
      <<[ch |-> <<>>, desc |-> Silk, q |-> NotANumber, r |-> Num(10, 1)]>> }

\* invoice forms: lines imported from a challan of the page, or typed
InvoiceForms(s, firm, scode, typed) ==
    typed \cup { addFromChallan(sess[s].page, firm, scode, ch) :
                    ch \in PageChallans(sess[s].page, firm, scode) }

-----------------------------------------------------------------------------
(* Specification: concurrent sessions over ledgers that start empty *)

Init ==
    /\ challan = <<>>
    /\ invoice = <<>>
    /\ sess = [s \in Sessions |-> IdleSession]
    /\ ndocs = [challan |-> 0, invoice |-> 0]
    /\ prorated = NoProration
    /\ store = NoStore
    /\ loaded = NotLoaded
    /\ user = NoUser
    /\ disk = NoDisk

Next ==
    \E s \in Sessions :
        \/ \E ok \in BOOLEAN : GetChallan(s, ok)
        \/ \E raw \in SpecChallanForms : PostChallan(s, FirmA, SupplierP, raw)
        \/ \E ok \in BOOLEAN : AppendChallanRow(s, ok)
        \/ \E okRows \in BOOLEAN, okNo \in BOOLEAN : GetInvoice(s, okRows, okNo)
        \/ \E raw \in SpecTypedInvoiceForms :
               PostInvoice(s, FirmA, SupplierP, Zero, raw)
        \/ \E ok \in BOOLEAN : AppendInvoiceRow(s, ok)
        \/ \E ok \in BOOLEAN : ReconRead(s, ok)
        \/ \E ok \in BOOLEAN : ReconWrite(s, ok)
        \/ FollowRedirect(s)

Spec == Init /\ [][Next]_vars

-----------------------------------------------------------------------------
(* Specification: invoices against challan ledgers that already hold lines *)

FirmB == <<"B">>

\* a challan line as the challan route stored it before the behaviour starts
OldRow(firm, scode, ch_no, desc, qty, mtr) ==
    [ChallanRow(0, firm, scode, ch_no,
                [desc |-> desc, q |-> Rat(qty, 100), r |-> Rat(10, 1),
                 a |-> RMul(Rat(qty, 100), Rat(10, 1))])
       EXCEPT !.INVOICE_MTR = mtr]

\* challan 1 of supplier P holds two lines of the same description whose
\* quantities differ by 0.01, and a line of another description; the other
\* ledgers add lines that differ from challan 1 in one key field and a
\* challan number stored with a leading space.  Every line starts unmarked.
ReconLedgers ==
    { << OldRow(FirmA, SupplierP, <<"1">>, Silk, 100, Blank),
         OldRow(FirmA, SupplierP, <<"1">>, Silk, 101, Blank),
         OldRow(FirmA, SupplierP, <<"1">>, Wool, 200, Blank) >>,
      << OldRow(FirmB, SupplierP, <<"1">>, Silk, 100, Blank),
         OldRow(FirmA, SupplierQ, <<"1">>, Silk, 100, Blank),
         OldRow(FirmA, SupplierP, <<" ", "1">>, Silk, 300, Blank) >>,
      << OldRow(FirmA, SupplierP, <<"2">>, Silk, 100, Blank),
         OldRow(FirmA, SupplierP, <<"1">>, Silk, 200, Blank),
         OldRow(FirmA, SupplierP, <<"1">>, Wool, 100, Blank) >> }

\* invoice lines typed by hand: a quantity below the challan's, a quantity
\* that "%.2f" rounds (1/8), a description entered with spaces around it, a
\* line with no challan, a line that validation drops
ReconTypedInvoiceForms ==
    { <<[ch |-> <<"1">>, desc |-> Silk, q |-> Num(1, 2), r |-> Num(10, 1)]>>,
      <<[ch |-> <<"1">>, desc |-> <<" ", "w", " ">>, q |-> Num(1, 8), r |-> Num(10, 1)],
        [ch |-> <<>>, desc |-> Silk, q |-> Num(1, 1), r |-> Num(10, 1)]>>,
      <<[ch |-> <<"1">>, desc |-> Silk, q |-> Num(1, 1), r |-> Num(-1, 1)]>> }

\* one page submits the invoices, one after another
ReconSessions == {"u1"}

InitRecon ==
    /\ challan \in ReconLedgers
    /\ invoice = <<>>
    /\ sess = [s \in Sessions |-> IdleSession]
    /\ ndocs = [challan |-> 0, invoice |-> 0]
    /\ prorated = NoProration
    /\ store = NoStore
    /\ loaded = NotLoaded
    /\ user = NoUser
    /\ disk = NoDisk

NextRecon ==
    \E s \in ReconSessions :
        \/ \E okRows \in BOOLEAN, okNo \in BOOLEAN : GetInvoice(s, okRows, okNo)
        \/ \E raw \in InvoiceForms(s, FirmA, SupplierP, ReconTypedInvoiceForms) :
               PostInvoice(s, FirmA, SupplierP, Zero, raw)
        \/ \E ok \in BOOLEAN : AppendInvoiceRow(s, ok)
        \/ \E ok \in BOOLEAN : ReconRead(s, ok)
        \/ \E ok \in BOOLEAN : ReconWrite(s, ok)
        \/ FollowRedirect(s)

SpecRecon == InitRecon /\ [][NextRecon]_vars

-----------------------------------------------------------------------------
(* Specification: the sequence allocator over ledgers of bounded length *)

\* number cells found in a human-edited ledger: "3", "inv-7", "x", "", "0",
\* " 12 ", "7a", "a09" and a superscript two
NumberPool ==
    { <<"3">>, <<"i", "n", "v", "-", "7">>, <<"x">>, <<>>, <<"0">>,
      <<" ", "1", "2", " ">>, <<"7", "a">>, <<"a", "0", "9">>, <<SuperTwo>> }

SeqsUpTo(S, n) == UNION {[1..k -> S] : k \in 0..n}

StdItem == [ch |-> <<>>, desc |-> Silk, q |-> Rat(1, 1), r |-> Rat(10, 1), a |-> Rat(10, 1)]

\* ledgers whose number column is cells
ChallanLedgerOf(cells) ==
    [k \in 1..Len(cells) |-> OldRow(FirmA, SupplierP, cells[k], Silk, 100, Blank)]

InvoiceLedgerOf(cells) ==
    [k \in 1..Len(cells) |->
        InvoiceRow(0, FirmA, SupplierP, cells[k], <<StdItem>>, Zero, 1)]

AllocSessions == {"u1"}

InitAlloc ==
    /\ \E cells \in SeqsUpTo(NumberPool, MaxLedger) :
          /\ challan = ChallanLedgerOf(cells)
          /\ invoice = InvoiceLedgerOf(cells)
    /\ sess = [s \in Sessions |-> IdleSession]
    /\ ndocs = [challan |-> 0, invoice |-> 0]
    /\ prorated = NoProration
    /\ store = NoStore
    /\ loaded = NotLoaded
    /\ user = NoUser
    /\ disk = NoDisk

NextAlloc ==
    \E s \in AllocSessions :
        \/ \E ok \in BOOLEAN : GetChallan(s, ok)
        \/ \E okRows \in BOOLEAN, okNo \in BOOLEAN : GetInvoice(s, okRows, okNo)

SpecAlloc == InitAlloc /\ [][NextAlloc]_vars

-----------------------------------------------------------------------------
(* Specification: one invoice, its proration and its ledger rows *)

\* lines of an invoice form
MaxItems == 3

ProrateLines ==
    { [ch |-> <<>>, desc |-> Silk, q |-> Num(1, 1), r |-> Num(10, 1)],
      [ch |-> <<>>, desc |-> Wool, q |-> Num(3, 2), r |-> Num(51, 5)],
      [ch |-> <<>>, desc |-> Silk, q |-> Num(2, 1), r |-> Num(0, 1)],
      [ch |-> <<>>, desc |-> Wool, q |-> Num(0, 1), r |-> Num(7, 1)] }

ProrateForms == SeqsUpTo(ProrateLines, MaxItems) \ {<<>>}

\* discounts: none, below the sub total, above the sub total
ProrateDiscounts == {Zero, Rat(1, 2), Rat(3, 1), Rat(100, 1)}

ProrateSessions == {"u1"}

\* the first submission of the page
FirstInvoice(s, discount, raw) ==
    /\ DocsCreated = 0
    /\ PostInvoice(s, FirmA, SupplierP, discount, raw)

NextProrate ==
    \E s \in ProrateSessions :
        \/ \E okRows \in BOOLEAN, okNo \in BOOLEAN : DocsCreated = 0 /\ GetInvoice(s, okRows, okNo)
        \/ \E raw \in ProrateForms, discount \in ProrateDiscounts :
               FirstInvoice(s, discount, raw)
        \/ \E ok \in BOOLEAN : AppendInvoiceRow(s, ok)
        \/ \E ok \in BOOLEAN : ReconRead(s, ok)
        \/ FollowRedirect(s)

SpecProrate == Init /\ [][NextProrate]_vars

-----------------------------------------------------------------------------
(* SpecFloat: the first invoice of a page, its proration in binary64 *)

\* lines of one form; with two amounts sum() rounds once, whatever the
\* summation the interpreter uses
MaxFloatItems == 2

FloatLines ==
    { [ch |-> <<>>, desc |-> Silk, q |-> Num(1, 1), r |-> Num(1, 1)],
      [ch |-> <<>>, desc |-> Wool, q |-> Num(7, 1), r |-> Num(1, 1)],
      [ch |-> <<>>, desc |-> Wool, q |-> Num(0, 1), r |-> Num(7, 1)] }

FloatForms == SeqsUpTo(FloatLines, MaxFloatItems) \ {<<>>}

\* discounts: none, below the sub total, above the sub total
FloatDiscounts == {Zero, Rat(1, 10), Rat(9, 1)}

FloatSessions == {"u1"}

\* the first submission of the page
FirstFloatInvoice(s, discount, raw) ==
    /\ DocsCreated = 0
    /\ FloatInvoice(s, FirmA, SupplierP, discount, raw)

NextFloat ==
    \E s \in FloatSessions :
        \/ \E okRows \in BOOLEAN, okNo \in BOOLEAN : DocsCreated = 0 /\ GetInvoice(s, okRows, okNo)
        \/ \E raw \in FloatForms, discount \in FloatDiscounts :
               FirstFloatInvoice(s, discount, raw)
        \/ \E ok \in BOOLEAN : AppendInvoiceRow(s, ok)
        \/ \E ok \in BOOLEAN : ReconRead(s, ok)
        \/ FollowRedirect(s)

SpecFloat == Init /\ [][NextFloat]_vars

-----------------------------------------------------------------------------
(* SpecDocument: the first document of a page, with forms that hold invalid
   lines and forms longer than the item table of the document *)

\* lines of a form beyond the row cap of the document's table
MaxOver == 1

\* two valid lines, and lines that validation drops: a zero quantity, a
\* negative rate, a quantity or a rate that float() rejects, a blank
\* description
DocumentLines ==
    { [ch |-> <<"1">>, desc |-> Silk, q |-> Num(1, 1), r |-> Num(10, 1)],
      [ch |-> <<"1">>, desc |-> Wool, q |-> Num(3, 2), r |-> Num(51, 5)],
      [ch |-> <<"1">>, desc |-> Silk, q |-> Num(0, 1), r |-> Num(10, 1)],
      [ch |-> <<"1">>, desc |-> Wool, q |-> Num(1, 1), r |-> Num(-1, 1)],
      [ch |-> <<"1">>, desc |-> Silk, q |-> NotANumber, r |-> Num(10, 1)],
      [ch |-> <<"1">>, desc |-> Wool, q |-> Num(1, 1), r |-> NotANumber],
      [ch |-> <<"1">>, desc |-> <<" ">>, q |-> Num(1, 1), r |-> Num(10, 1)] }

\* a form of n valid lines, line j with quantity j
LongForm(n) ==
    [j \in 1..n |-> [ch |-> <<"1">>, desc |-> Silk, q |-> Num(j, 1), r |-> Num(10, 1)]]

DocumentForms(cap) ==
    (SeqsUpTo(DocumentLines, 2) \ {<<>>}) \cup {LongForm(n) : n \in (cap + 1)..(cap + MaxOver)}

DocumentDiscounts == {Zero, Rat(1, 2)}

DocumentSessions == {"u1"}

\* the challan ledger holds one line, which the Silk lines of an invoice match
InitDocument ==
    /\ challan = <<OldRow(FirmA, SupplierP, <<"1">>, Silk, 100, Blank)>>
    /\ invoice = <<>>
    /\ sess = [s \in Sessions |-> IdleSession]
    /\ ndocs = [challan |-> 0, invoice |-> 0]
    /\ prorated = NoProration
    /\ store = NoStore
    /\ loaded = NotLoaded
    /\ user = NoUser
    /\ disk = NoDisk

FirstChallan(s, raw) ==
    /\ DocsCreated = 0
    /\ PostChallan(s, FirmA, SupplierP, raw)

NextDocument ==
    \E s \in DocumentSessions :
        \/ \E ok \in BOOLEAN : DocsCreated = 0 /\ GetChallan(s, ok)
        \/ \E raw \in DocumentForms(CH_MAX_ROWS) : FirstChallan(s, raw)
        \/ \E ok \in BOOLEAN : AppendChallanRow(s, ok)
        \/ \E okRows \in BOOLEAN, okNo \in BOOLEAN : DocsCreated = 0 /\ GetInvoice(s, okRows, okNo)
        \/ \E raw \in DocumentForms(INV_MAX_ROWS), discount \in DocumentDiscounts :
               FirstInvoice(s, discount, raw)
        \/ \E ok \in BOOLEAN : AppendInvoiceRow(s, ok)
        \/ \E ok \in BOOLEAN : ReconRead(s, ok)
        \/ \E ok \in BOOLEAN : ReconWrite(s, ok)
        \/ FollowRedirect(s)

SpecDocument == InitDocument /\ [][NextDocument]_vars

-----------------------------------------------------------------------------
(* SpecResponse: the first document of a page from submission to response,
   every backend write free to fail; a handler that has started runs to its end *)

ResponseLines ==
    { [ch |-> <<"1">>, desc |-> Silk, q |-> Num(1, 1), r |-> Num(10, 1)],
      [ch |-> <<"1">>, desc |-> Wool, q |-> Num(3, 2), r |-> Num(51, 5)],
      [ch |-> <<"1">>, desc |-> Silk, q |-> Num(0, 1), r |-> Num(10, 1)] }

ResponseForms == SeqsUpTo(ResponseLines, 2) \ {<<>>}

ResponseSessions == {"u1"}

\* the steps of the POST handlers after the submission
Handler(s) ==
    \/ \E ok \in BOOLEAN : AppendChallanRow(s, ok)
    \/ \E ok \in BOOLEAN : AppendInvoiceRow(s, ok)
    \/ \E ok \in BOOLEAN : ReconRead(s, ok)
    \/ \E ok \in BOOLEAN : ReconWrite(s, ok)

NextResponse ==
    \E s \in ResponseSessions :
        \/ \E ok \in BOOLEAN : DocsCreated = 0 /\ GetChallan(s, ok)
        \/ \E raw \in ResponseForms : FirstChallan(s, raw)
        \/ \E ok \in BOOLEAN : AppendChallanRow(s, ok)
        \/ \E okRows \in BOOLEAN, okNo \in BOOLEAN : DocsCreated = 0 /\ GetInvoice(s, okRows, okNo)
        \/ \E raw \in ResponseForms : FirstInvoice(s, Zero, raw)
        \/ \E ok \in BOOLEAN : AppendInvoiceRow(s, ok)
        \/ \E ok \in BOOLEAN : ReconRead(s, ok)
        \/ \E ok \in BOOLEAN : ReconWrite(s, ok)
        \/ FollowRedirect(s)

SpecResponse ==
    /\ InitDocument
    /\ [][NextResponse]_vars
    /\ \A s \in ResponseSessions : WF_vars(Handler(s))

-----------------------------------------------------------------------------
(* Specification: requests whose rendering may fail, over the ledgers of
   SpecDocument *)

RenderSessions == {"u1"}

\* valid forms of one line and of two, and a form that validation rejects
RenderForms ==
    { <<[ch |-> <<"1">>, desc |-> Silk, q |-> Num(1, 1), r |-> Num(10, 1)]>>,
      <<[ch |-> <<"1">>, desc |-> Silk, q |-> Num(0, 1), r |-> Num(10, 1)]>>,
      <<[ch |-> <<"1">>, desc |-> Silk, q |-> Num(1, 1), r |-> Num(10, 1)],
        [ch |-> <<"1">>, desc |-> Wool, q |-> Num(3, 2), r |-> Num(51, 5)]>> }

NextRender ==
    \E s \in RenderSessions :
        \/ \E ok \in BOOLEAN : GetChallan(s, ok)
        \/ \E raw \in RenderForms : PostChallan(s, FirmA, SupplierP, raw)
        \/ \E raw \in RenderForms : PostChallanRenderFails(s, FirmA, SupplierP, raw)
        \/ \E ok \in BOOLEAN : AppendChallanRow(s, ok)
        \/ \E okRows \in BOOLEAN, okNo \in BOOLEAN : GetInvoice(s, okRows, okNo)
        \/ \E raw \in RenderForms : PostInvoice(s, FirmA, SupplierP, Zero, raw)
        \/ \E raw \in RenderForms : PostInvoiceRenderFails(s, FirmA, SupplierP, Zero, raw)
        \/ \E ok \in BOOLEAN : AppendInvoiceRow(s, ok)
        \/ \E ok \in BOOLEAN : ReconRead(s, ok)
        \/ \E ok \in BOOLEAN : ReconWrite(s, ok)
        \/ FollowRedirect(s)

SpecRender == InitDocument /\ [][NextRender]_vars

-----------------------------------------------------------------------------
(* Specification: the routes behind the login *)

\* the PASS tab: an ID and a password in row 2, the same between spaces, and
\* a tab with its header only
PassTabs ==
    { << <<<<"I", "D">>, <<"P", "A", "S", "S">>>>, <<<<"u">>, <<"p">>>> >>,
      << <<<<"I", "D">>, <<"P", "A", "S", "S">>>>, <<<<" ", "u">>, <<"p", " ">>>> >>,
      << <<<<"I", "D">>, <<"P", "A", "S", "S">>>> >> }

\* what is typed into the login form: the first browser knows the ID, the
\* second does not
AuthNames(s) ==
    IF s = "u1" THEN { <<"u", " ">>, <<"x">> } ELSE { <<"x">>, <<>> }

AuthPasswords == { <<"p">>, <<>> }

AuthChallanForm == <<[desc |-> Silk, q |-> Num(1, 1), r |-> Num(10, 1)]>>

AuthInvoiceForm == <<[ch |-> <<"1">>, desc |-> Silk, q |-> Num(1, 1), r |-> Num(10, 1)]>>

InitAuth ==
    /\ challan = <<>>
    /\ invoice = <<>>
    /\ sess = [s \in Sessions |-> IdleSession]
    /\ ndocs = [challan |-> 0, invoice |-> 0]
    /\ prorated = NoProration
    /\ store \in {[creds |-> TRUE, reachable |-> TRUE, tabs |-> [t \in {PASS_TAB_NAME} |-> v]] :
                     v \in PassTabs}
    /\ loaded = NotLoaded
    /\ user = NoUser
    /\ disk = NoDisk

NextAuth ==
    \E s \in Sessions :
        \/ \E username \in AuthNames(s), password \in AuthPasswords :
               login(s, username, password)
        \/ \E same_tab \in BOOLEAN : logout(s, same_tab)
        \/ dashboard(s)
        \/ get_challan(s, TRUE)
        \/ post_challan(s, FirmA, SupplierP, AuthChallanForm)
        \/ AppendChallanRow(s, TRUE)
        \/ get_invoice(s, TRUE, TRUE)
        \/ post_invoice(s, FirmA, SupplierP, Zero, AuthInvoiceForm)
        \/ AppendInvoiceRow(s, TRUE)
        \/ ReconRead(s, TRUE)
        \/ ReconWrite(s, TRUE)

SpecAuth == InitAuth /\ [][NextAuth]_vars

-----------------------------------------------------------------------------
(* Specification: the readers over spreadsheets in every condition *)

\* columns of the header of the Challan tab (besides the canonical header)
MaxCols == 3

\* the tabs of a spreadsheet in use
DefaultTabs ==
    [t \in TabNames |->
        CASE t = ID_TAB_NAME ->
                 << <<<<" ", "F", "i", "r", "m", " ">>, <<"G", "S", "T">>, <<"B", "a", "n", "k">>>>,
                    <<<<"J", "a", "y", " ">>, <<"2", "4", "A">>, <<>>>>,
                    <<<<>>, <<"2", "4", "B">>, <<"K", "o", "t", "a", "k">>>>,
                    <<<<>>, <<>>, <<>>>> >>
          [] t = SUPPLIER_TAB_NAME ->
                 << <<<<"S", "u", "p", "p", "l", "i", "e", "r", " ", "C", "o", "d", "e">>, <<"S", "u", "p", "p", "l", "i", "e", "r", " ", "N", "a", "m", "e">>>>,
                    <<<<" ", "P", " ">>, <<"P", "a", "t">>>>,
                    <<<<>>, <<"N", "o", "b", "o", "d", "y">>>> >>
          [] t = CHALLAN_TAB_NAME ->
                 << CANON_KEYS,
                    <<<<"A">>, <<"P">>, <<"1">>, <<>>, <<"s">>, <<"1", ".", "0", "0">>, <<>>, <<"1", "0", ".", "0", "0">>, <<>>, <<"1", "0", ".", "0", "0">>>>,
                    <<<<"A">>, <<"P">>, <<"C", "-", "2">>, <<>>, <<"w">>, <<"2", ".", "0", "0">>, <<>>, <<"1", "0", ".", "0", "0">>, <<>>, <<"2", "0", ".", "0", "0">>>> >>
          [] t = INVOICE_TAB_NAME ->
                 << <<<<"I", "n", "v", "o", "i", "c", "e", "_", "N", "u", "m", "b", "e", "r">>, <<"F", "i", "r", "m">>>>,
                    <<<<"7">>, <<"A">>>>,
                    <<<<"I", "N", "V", "-", "9">>, <<"A">>>> >>
          [] t = PASS_TAB_NAME ->
                 << <<<<"I", "D">>, <<"P", "A", "S", "S">>>>,
                    <<<<" ", "a", "d", "m", "i", "n">>, <<"p", "w", " ">>>> >>]

\* the spreadsheet with or without its credentials, its service and each tab
StatusStores ==
    { [creds |-> c, reachable |-> r, tabs |-> [t \in present |-> DefaultTabs[t]]] :
         c \in BOOLEAN, r \in BOOLEAN,
         present \in {TabNames, {}} \cup {TabNames \ {t} : t \in TabNames} }

\* headers as people type them: the claimed synonyms of Qty, the other
\* quantity column, a spaced and punctuated challan number, a synonym with an
\* underscore, a column of no field and a column without a header
HeaderPool ==
    { <<"Q", "t", "y">>, <<"Q", "N", "T">>, <<"M", "e", "t", "e", "r">>, <<"M", "T", "R">>,
      <<" ", "C", "h", "a", "l", "l", "a", "n", " ", "N", "o", ".", " ">>,
      <<"m", "t", "r", "_", "q", "t", "y">>,
      <<"R", "e", "m", "a", "r", "k", "s">>, <<>> }

SheetHeaders == SeqsUpTo(HeaderPool, MaxCols) \cup {CANON_KEYS}

\* a row longer than the header, a shorter one and one with an empty first cell
SheetRows ==
    { <<<<"a">>, <<"b">>, <<"c">>, <<"d">>, <<"e">>>>,
      <<<<"a">>, <<"b">>>>, <<<<>>, <<"b">>>> }

\* a row of empty cells
EmptyRow == <<<<>>, <<>>, <<>>>>

\* a row longer than the canonical header
CanonRow ==
    <<<<"0">>, <<"1">>, <<"2">>, <<"3">>, <<"4">>, <<"5">>, <<"6">>, <<"7">>, <<"8">>, <<"9">>, <<"x">>>>

\* Challan tabs: empty, or a header, one of the rows, the row of empty cells
\* and the long row
ChallanTabs ==
    {<<>>} \cup {<<h, r, EmptyRow, CanonRow>> : h \in SheetHeaders, r \in SheetRows}

HeaderStores ==
    { [creds |-> TRUE, reachable |-> TRUE,
       tabs |-> [DefaultTabs EXCEPT ![CHALLAN_TAB_NAME] = v]] : v \in ChallanTabs }

Usernames == { <<"a", "d", "m", "i", "n">>, <<" ", "a", "d", "m", "i", "n", " ">>, <<"r", "o", "o", "t">> }

Passwords == { <<"p", "w">>, <<"P", "W">> }

InitSheet ==
    /\ challan = <<>>
    /\ invoice = <<>>
    /\ sess = [s \in Sessions |-> IdleSession]
    /\ ndocs = [challan |-> 0, invoice |-> 0]
    /\ prorated = NoProration
    /\ store \in StatusStores \cup HeaderStores
    /\ loaded = NotLoaded
    /\ user = NoUser
    /\ disk = NoDisk

\* one reader is called on each spreadsheet
NextSheet ==
    \/ (loaded.fn = "none" /\ LoadFirms)
    \/ (loaded.fn = "none" /\ LoadSuppliers)
    \/ (loaded.fn = "none" /\ LoadChallanRows)
    \/ (loaded.fn = "none" /\ GetNextInvoiceNumber)
    \/ (loaded.fn = "none" /\ GetNextChallanNumber)
    \/ \E username \in Usernames, password \in Passwords :
           loaded.fn = "none" /\ CheckLogin(username, password)

SpecSheet == InitSheet /\ [][NextSheet]_vars

-----------------------------------------------------------------------------
(* Specification: the writers over the worksheets of the two ledgers *)

\* rows in the two ledger tabs together up to which rows are appended
MaxSheetRows == 3

SheetRowsUsed == Len(TabValues(CHALLAN_TAB_NAME)) + Len(TabValues(INVOICE_TAB_NAME))

\* the row dict of lines 1329-1343 for one item, as its (key, value) pairs
ChallanRowDict(firm, created, ch_dt, ch_no, supplier_challan_number, party_code, party_name, gstin, item) ==
    << <<<<"F", "i", "r", "m">>, firm>>,
       <<<<"C", "r", "e", "a", "t", "e", "e", "d", "_", "D", "a", "t", "e">>, created>>,
       <<<<"I", "n", "v", "o", "i", "c", "e", "_", "D", "a", "t", "e">>, ch_dt>>,
       <<<<"C", "h", "a", "l", "l", "a", "n", "_", "N", "u", "m", "b", "e", "r">>, ch_no>>,
       <<<<"s", "u", "p", "p", "l", "i", "e", "r", "_", "c", "h", "a", "l", "l", "a", "n", "_", "n", "u", "m", "b", "e", "r">>, supplier_challan_number>>,
       <<<<"S", "u", "p", "p", "l", "i", "e", "r", " ", "C", "o", "d", "e">>, party_code>>,
       <<<<"S", "u", "p", "p", "l", "i", "e", "r", "_", "N", "a", "m", "e">>, party_name>>,
       <<<<"G", "s", "t", "_", "N", "o">>, gstin>>,
       <<<<"D", "e", "s", "c", "r", "i", "p", "t", "i", "o", "n">>, item.desc>>,
       <<<<"Q", "t", "y">>, TwoDecimals(item.q)>>,
       <<<<"R", "a", "t", "e">>, TwoDecimals(item.r)>>,
       <<<<"A", "m", "o", "u", "n", "t">>, TwoDecimals(item.r)>>,
       <<<<"T", "a", "x", "a", "b", "l", "e", "_", "A", "m", "o", "u", "n", "t">>, TwoDecimals(item.a)>> >>

\* the row values of lines 1427-1446 for item i of an invoice
InvoiceRowValues(firm, created, inv_dt, inv_no, sup_code, sup_name, sup_gstin, items, discount, i) ==
    << firm, created, inv_dt, inv_no, sup_code, sup_name, sup_gstin,
       items[i].ch, items[i].desc,
       TwoDecimals(items[i].q),
       TwoDecimals(items[i].a),
       TwoDecimals(RowTaxable(items, discount, i)),
       TwoDecimals(RowDiscount(items, discount, i)),
       Append(ToStr(GST_TOTAL), "%"),
       TwoDecimals(TaxLeg(RowTaxable(items, discount, i), CGST_RATE)),
       TwoDecimals(TaxLeg(RowTaxable(items, discount, i), SGST_RATE)),
       TwoDecimals(RowRound(items, discount, i)),
       ToStr(RowGrandTotal(items, discount, i)) >>

\* Challan tabs found before the writers run: an empty sheet; the required
\* header over an unmarked and a marked line; a header typed by hand, with
\* spaces and capitals, an own column and neither INVOICE_MTR nor Rate, over a
\* full and a short line; a header that holds the marker column in the middle
LedgerChallanTabs ==
    { <<>>,
      << REQ_CHALLAN_HEADER,
         <<<<"A">>, <<"t">>, <<"d">>, <<"1">>, <<>>, <<"P">>, <<"P", "a", "t">>, <<"2", "4", "P">>, <<"s">>, <<"1", ".", "0", "0">>, <<"1", "0", ".", "0", "0">>, <<"1", "0", ".", "0", "0">>, <<>>, <<"1", "0", ".", "0", "0">>>>,
         <<<<"A">>, <<"t">>, <<"d">>, <<"1">>, <<>>, <<"P">>, <<"P", "a", "t">>, <<"2", "4", "P">>, <<"w">>, <<"2", ".", "0", "0">>, <<"1", "0", ".", "0", "0">>, <<"2", "0", ".", "0", "0">>, <<"2", ".", "0", "0">>, <<"1", "0", ".", "0", "0">>>> >>,
      << <<<<" ", "f", "i", "r", "m", " ">>, <<"S", "U", "P", "P", "L", "I", "E", "R", " ", "C", "O", "D", "E">>, <<"C", "h", "a", "l", "l", "a", "n", "_", "N", "u", "m", "b", "e", "r">>, <<"D", "e", "s", "c", "r", "i", "p", "t", "i", "o", "n">>, <<"Q", "t", "y">>, <<"R", "e", "m", "a", "r", "k", "s">>>>,
         <<<<"A">>, <<"P">>, <<"1">>, <<"s">>, <<"1", ".", "0", "0">>, <<"x">>>>,
         <<<<"A">>, <<"P">>, <<" ", "1">>, <<"w">>>> >>,
      << <<<<"F", "i", "r", "m">>, <<"S", "u", "p", "p", "l", "i", "e", "r", " ", "C", "o", "d", "e">>, <<"C", "h", "a", "l", "l", "a", "n", "_", "N", "u", "m", "b", "e", "r">>, <<" ", "i", "n", "v", "o", "i", "c", "e", "_", "m", "t", "r", " ">>, <<"D", "e", "s", "c", "r", "i", "p", "t", "i", "o", "n">>>>,
         <<<<"A">>, <<"P">>, <<"1">>, <<>>, <<"s">>>> >> }

\* Invoice tabs found before the writers run: an empty sheet, or a header
\* over one line
LedgerInvoiceTabs ==
    { <<>>,
      << <<<<"F", "i", "r", "m">>, <<"I", "n", "v", "o", "i", "c", "e", "_", "N", "u", "m", "b", "e", "r">>>>,
         <<<<"A">>, <<"6">>>> >> }

\* the spreadsheet with each pair of tabs; it cannot be reached in one case
LedgerStores ==
    { [creds |-> TRUE,
       reachable |-> c # <<>> \/ i = <<>>,
       tabs |-> [t \in {CHALLAN_TAB_NAME, INVOICE_TAB_NAME} |->
                    IF t = CHALLAN_TAB_NAME THEN c ELSE i]] :
        c \in LedgerChallanTabs, i \in LedgerInvoiceTabs }

SilkLine == [ch |-> <<"1">>, desc |-> Silk, q |-> Rat(1, 1), r |-> Rat(10, 1), a |-> Rat(10, 1)]

WoolLine == [ch |-> <<"1">>, desc |-> Wool, q |-> Rat(1, 8), r |-> Rat(10, 1), a |-> Rat(5, 4)]

\* row dicts handed to append_row_to_challan: the one the challan route
\* builds, and one that carries a marker, a key in capitals and an empty key
LedgerRowDicts ==
    { ChallanRowDict(FirmA, <<"t">>, <<"d">>, <<"1">>, <<>>, SupplierP,
                     <<"P", "a", "t">>, <<"2", "4", "P">>, SilkLine),
      ChallanRowDict(FirmA, <<"t">>, <<"d">>, <<"2">>, <<>>, SupplierP,
                     <<"P", "a", "t">>, <<"2", "4", "P">>, WoolLine)
        \o << <<<<"i", "n", "v", "o", "i", "c", "e", "_", "m", "t", "r">>, <<"9", ".", "0", "0">>>>,
              <<<<" ", "D", "E", "S", "C", "R", "I", "P", "T", "I", "O", "N">>, <<"W">>>>,
              <<<<" ">>, <<"x">>>> >> }

\* the items of the invoices that are logged and reconciled
LedgerInvoices == { <<SilkLine>>, <<WoolLine, SilkLine>> }

\* the invoice whose rows are logged
LoggedInvoice == <<WoolLine, SilkLine>>

InitLedger ==
    /\ challan = <<>>
    /\ invoice = <<>>
    /\ sess = [s \in Sessions |-> IdleSession]
    /\ ndocs = [challan |-> 0, invoice |-> 0]
    /\ prorated = NoProration
    /\ store \in LedgerStores
    /\ loaded = NotLoaded
    /\ user = NoUser
    /\ disk = NoDisk

NextLedger ==
    \/ \E row_dict \in LedgerRowDicts, raises \in ChallanAppendCalls :
           /\ SheetRowsUsed <= MaxSheetRows
           /\ AppendRowToChallan(row_dict, raises)
    \/ \E i \in 1..Len(LoggedInvoice), raises \in InvoiceAppendCalls :
           /\ SheetRowsUsed <= MaxSheetRows
           /\ AppendRowToInvoice(
                  InvoiceRowValues(FirmA, <<"t">>, <<"d">>, <<"7">>, SupplierP,
                                   <<"P", "a", "t">>, <<"2", "4", "P">>,
                                   LoggedInvoice, Zero, i),
                  raises)
    \/ \E items \in LedgerInvoices, raises \in ReconciliationCalls :
           WriteInvoiceMtrToChallan(FirmA, SupplierP, items, raises)

SpecLedger == InitLedger /\ [][NextLedger]_vars

-----------------------------------------------------------------------------
(* Specification: the PDF helpers on their arguments *)

\* words in a text handed to _wrap
MaxWrapWords == 3

\* crores and lower parts of the numbers handed to _num_words: the values
\* around the steps of two() and three() and around each group
CrorePool == {0, 1, 12, 20, 99, 100, 101, 999, 1000, 1999, 2000, 2147}

LowPool ==
    {0, 1, 9, 10, 19, 20, 21, 99, 100, 101, 110, 999, 1000, 1001, 12000, 99999,
     100000, 100001, 1010101, 1234567, 2000000, 9999999}

NumWordsCalls ==
    {[fn |-> "args", value |-> [f |-> "_num_words", cr |-> c, low |-> l]] :
        c \in CrorePool, l \in LowPool}

\* a narrow word, a wide one and two longer ones
WrapWordPool == { <<"i">>, <<"m">>, <<"m", "m">>, <<"m", "i", "m", "i">> }

\* what stands between two words, before the first and after the last
WrapGaps == { <<" ">>, <<" ", " ">>, <<"\n">>, <<"\r", "\n">> }

\* the words with the gap between them and around them
RECURSIVE Glue(_, _)
Glue(words, gap) ==
    IF words = <<>> THEN gap ELSE gap \o Head(words) \o Glue(Tail(words), gap)

\* widths in thousandths of a point: none, narrower than "m", two short
\* words, one long word, every text of the pool
WrapWidths == {0, 5000, 10000, 16000, 30000, 100000}

WrapCalls ==
    {[fn |-> "args", value |-> [f |-> "_wrap", text |-> t, max_width |-> w]] :
        t \in {Glue(ws, g) : ws \in SeqsUpTo(WrapWordPool, MaxWrapWords), g \in WrapGaps}
              \cup {<<>>} \cup WrapWordPool,
        w \in WrapWidths}

InitPdfHelpers ==
    /\ challan = <<>>
    /\ invoice = <<>>
    /\ sess = [s \in Sessions |-> IdleSession]
    /\ ndocs = [challan |-> 0, invoice |-> 0]
    /\ prorated = NoProration
    /\ store = NoStore
    /\ \/ loaded \in NumWordsCalls
       \/ loaded \in WrapCalls
    /\ user = NoUser
    /\ disk = NoDisk

NextPdfHelpers == NumWords \/ Wrap

SpecPdfHelpers == InitPdfHelpers /\ [][NextPdfHelpers]_vars

-----------------------------------------------------------------------------
(* Specification: the documents sent and the copies saved on the server *)

\* seconds on the clock
MaxSeconds == 2

\* counterparty names of the forms: two names that differ only in a
\* character the file name replaces, a name between spaces, and none
OutputNames == { <<"P", " ", "Q">>, <<"P", "-", "Q">>, <<" ", "P", " ">>, <<>> }

\* the working directory: empty, or with files named as the downloads of
\* document 1 of party P in second 1 are
OutputCwds ==
    { {},
      {DlName(<<"1">>, <<"P">>, <<"1">>)},
      {DlName(<<"1">>, <<"P">>, <<"1">>),
       SubSeq(DlName(<<"1">>, <<"P">>, <<"1">>), 1, 5) \o <<"_", "1", ".", "p", "d", "f">>} }

InitOutput ==
    /\ challan = <<>>
    /\ invoice = <<>>
    /\ sess = [s \in Sessions |-> IdleSession]
    /\ ndocs = [challan |-> 0, invoice |-> 0]
    /\ prorated = NoProration
    /\ store = NoStore
    /\ loaded = NotLoaded
    /\ user = NoUser
    /\ disk \in {[now |-> 1, save_dir |-> d, saved |-> <<>>, cwd |-> c] :
                    d \in BOOLEAN, c \in OutputCwds}

NextOutput ==
    \/ \E no \in {<<"1">>, <<"2">>}, name \in OutputNames, ok \in BOOLEAN :
           SendChallan(FirmA, no, name, ok)
    \/ \E firm \in {FirmA, <<>>}, name \in OutputNames, ok \in BOOLEAN :
           SendInvoice(firm, <<"1">>, name, ok)
    \/ disk.now < MaxSeconds /\ Tick

SpecOutput == InitOutput /\ [][NextOutput]_vars

-----------------------------------------------------------------------------
(* Claims on document numbering *)

ChallanSide == {"challan_form", "challan_append", "challan_rejected"}

InvoiceSide == {"invoice_form", "invoice_append", "recon_read", "recon_write",
                "invoice_rejected"}

Posting == {"challan_append", "invoice_append", "recon_read", "recon_write"}

SameLedger(s, t) ==
    \/ sess[s].pc \in ChallanSide /\ sess[t].pc \in ChallanSide
    \/ sess[s].pc \in InvoiceSide /\ sess[t].pc \in InvoiceSide

\* s and t read their next number from the same ledger contents: both reads
\* succeeded and no row was appended between them
ReadTogether(s, t) ==
    /\ s # t
    /\ SameLedger(s, t)
    /\ sess[s].readAt >= 0
    /\ sess[s].readAt = sess[t].readAt

\* the number cells of the rows that document doc has in a ledger
NumbersOfDoc(numbers, rows, doc) ==
    {numbers[k] : k \in {j \in 1..Len(rows) : rows[j].doc = doc}}

LedgerNumbersOfDoc(s) ==
    IF sess[s].pc \in ChallanSide
    THEN NumbersOfDoc(ChallanNumbers(challan), challan, sess[s].req.doc)
    ELSE NumbersOfDoc(InvoiceNumbers(invoice), invoice, sess[s].req.doc)

\* C1: two requests on one ledger that both computed the next number before
\* either appended obtain the same number; their documents are distinct, and
\* every ledger row either of them appends carries that one number.
C1_RaceDuplicatesNumber ==
    \A s \in Sessions, t \in Sessions :
        ReadTogether(s, t) =>
            /\ sess[s].next_no = sess[t].next_no
            /\ (sess[s].pc \in Posting /\ sess[t].pc \in Posting) =>
                   /\ sess[s].req.doc # sess[t].req.doc
                   /\ sess[s].req.no = sess[t].req.no
                   /\ LedgerNumbersOfDoc(s) \cup LedgerNumbersOfDoc(t) \subseteq {sess[s].req.no}

\* C1 witness: two requests in flight that read together, and the challan
\* ledger holds a row of each document under the same number
C1_Witness ==
    \E s \in Sessions, t \in Sessions :
        /\ ReadTogether(s, t)
        /\ sess[s].pc = "challan_append" /\ sess[t].pc = "challan_append"
        /\ \E i \in 1..Len(challan), j \in 1..Len(challan) :
              /\ challan[i].doc = sess[s].req.doc
              /\ challan[j].doc = sess[t].req.doc
              /\ challan[i].doc # challan[j].doc
              /\ challan[i].Challan_Number = challan[j].Challan_Number

\* the documents of a ledger are numbered one after another, none reused
SequentialNumbers(numbers, rows) ==
    \A i \in 1..Len(rows), j \in 1..Len(rows) :
        /\ rows[j].doc = rows[i].doc + 1 =>
               IntOf(Strip(numbers[j])) = IntOf(Strip(numbers[i])) + 1
        /\ rows[j].doc # rows[i].doc => numbers[j] # numbers[i]

\* C2: when every request uses the number the allocator returned, the numbers
\* recorded on a ledger are sequential and gap-free: each new document's number
\* is one more than the previous document's, none skipped or reused.
C2_NumbersSequentialGapFree ==
    /\ SequentialNumbers(ChallanNumbers(challan), challan)
    /\ SequentialNumbers(InvoiceNumbers(invoice), invoice)

\* the candidates the allocator is to take from a number column: the purely
\* numeric cells and the cells that end in a run of digits, every other ignored
ClaimedCandidates(cells) ==
    {IntOf(TrailingDigits(Strip(cells[k]))) :
        k \in {j \in 1..Len(cells) : TrailingDigits(Strip(cells[j])) # <<>>}}

ClaimedNext(cells) ==
    LET c == ClaimedCandidates(cells)
    IN  IF \E n \in c : n > 0
        THEN ToStr((CHOOSE n \in c : \A m \in c : m <= n) + 1)
        ELSE <<"1">>

AllocatedAsClaimed(numberField, cells) ==
    /\ numberField = ClaimedNext(cells)
    /\ \A n \in ClaimedCandidates(cells) : IntOf(numberField) > n

\* C3: on every readable ledger the allocator returns str(max(candidates) + 1)
\* if some candidate is > 0 and "1" otherwise, the candidates being the purely
\* numeric cells and the trailing digit runs, every other cell ignored; the
\* result exceeds every numeric suffix of the ledger.
C3_AllocatorMaxPlusOne ==
    \A s \in Sessions :
        /\ (sess[s].pc = "challan_form" /\ sess[s].readAt >= 0) =>
               AllocatedAsClaimed(sess[s].next_no, ChallanNumbers(challan))
        /\ (sess[s].pc = "invoice_form" /\ sess[s].readAt >= 0) =>
               AllocatedAsClaimed(sess[s].next_no, InvoiceNumbers(invoice))

-----------------------------------------------------------------------------
(* Claims on reconciliation *)

\* a challan row and an invoice line item correspond: Firm and Supplier code
\* equal, challan number and description equal after trimming
Corresponds(row, firm, scode, item) ==
    /\ row.Firm = firm
    /\ row.Supplier_Code = scode
    /\ Strip(row.Challan_Number) = Strip(item.ch)
    /\ Strip(row.Description) = Strip(item.desc)

\* the challan rows an invoice ledger row is recorded against
ChallanLinesOf(irow) ==
    {k \in 1..Len(challan) :
        Corresponds(challan[k], irow.Firm, irow.Supplier_Code,
                    [ch |-> irow.Challan_Number, desc |-> irow.Description])}

\* C4: no challan line (Firm + Supplier code + challan number + description)
\* is invoiced twice: two invoice ledger rows recorded against the same challan
\* line never come from two different invoice creations.
C4_NoChallanLineInvoicedTwice ==
    \A i \in 1..Len(invoice), j \in 1..Len(invoice) :
        (/\ invoice[i].doc # invoice[j].doc
         /\ ChallanLinesOf(invoice[i]) # {})
        => ChallanLinesOf(invoice[i]) \cap ChallanLinesOf(invoice[j]) = {}

\* the rows that the pass of session s is about to write for its item m
RowsMarkedFor(s, m) ==
    LET r == sess[s].req
    IN  {k \in 1..Len(challan) :
            /\ \E u \in 1..Len(r.updates) : r.updates[u].row = k
            /\ Corresponds(challan[k], r.firm, r.scode, r.items[m])
            /\ \A n \in 1..(m - 1) : ~Corresponds(challan[k], r.firm, r.scode, r.items[n])}

\* the first row in ledger order that corresponds to item m and is unmarked
FirstUnmarkedFor(s, m) ==
    LET r    == sess[s].req
        open == {k \in 1..Len(challan) :
                    /\ Corresponds(challan[k], r.firm, r.scode, r.items[m])
                    /\ IsBlank(challan[k].INVOICE_MTR)}
    IN  {k \in open : \A j \in open : k <= j}

\* C5: in one reconciliation pass each invoice line item marks at most one
\* challan row, the first row in ledger order that matches it and whose
\* INVOICE_MTR is empty; further matching rows stay unmarked.
C5_ItemMarksFirstUnmarkedRowOnly ==
    \A s \in Sessions :
        sess[s].pc = "recon_write" =>
            \A m \in 1..Len(sess[s].req.items) :
                RowsMarkedFor(s, m) \subseteq FirstUnmarkedFor(s, m)

\* what an invoice ledger row records of the submitted line
LineOf(irow) ==
    [Firm |-> irow.Firm, Supplier_Code |-> irow.Supplier_Code,
     Challan_Number |-> irow.Challan_Number, Description |-> irow.Description,
     Qty |-> irow.Qty]

LinesOfDoc(doc) ==
    LET ks == {k \in 1..Len(invoice) : invoice[k].doc = doc}
    IN  {<<Cardinality({j \in ks : j <= k}), LineOf(invoice[k])>> : k \in ks}

\* the pass of session s runs again with the firm, supplier code and items of
\* an earlier invoice
IsRetry(s) ==
    LET r == sess[s].req
    IN  /\ Cardinality(LinesOfDoc(r.doc)) = Len(r.items)
        /\ \E d \in 1..(r.doc - 1) : LinesOfDoc(d) = LinesOfDoc(r.doc)

\* C6: reconciliation run a second time with the same firm, supplier code and
\* items issues no write to a challan row whose INVOICE_MTR is already
\* non-empty.
C6_RetryWritesNoMarkedRow ==
    \A s \in Sessions :
        (sess[s].pc = "recon_write" /\ IsRetry(s)) =>
            \A u \in 1..Len(sess[s].req.updates) :
                IsBlank(challan[sess[s].req.updates[u].row].INVOICE_MTR)

\* C7: once a challan row's INVOICE_MTR is non-empty no later operation
\* changes it.
C7_MarkerWrittenOnce ==
    [][\A k \in 1..Len(challan) :
          ~IsBlank(challan[k].INVOICE_MTR) =>
              challan'[k].INVOICE_MTR = challan[k].INVOICE_MTR]_vars

\* the items of the pass of session s that row k corresponds to
ItemsFor(s, k) ==
    {m \in 1..Len(sess[s].req.items) :
        Corresponds(challan[k], sess[s].req.firm, sess[s].req.scode, sess[s].req.items[m])}

\* What does hold of a marker: a row whose marker a step changes is marked by
\* a reconciliation pass in which some item corresponds to it, and holds the
\* quantity of the first such item in line order, formatted to 2 decimals.
MarkedRowHoldsFirstMatchingQuantity ==
    [][\A k \in 1..Len(challan) :
          challan'[k].INVOICE_MTR # challan[k].INVOICE_MTR =>
              \E s \in Sessions :
                  /\ sess[s].pc = "recon_write"
                  /\ sess'[s].pc # "recon_write"
                  /\ ItemsFor(s, k) # {}
                  /\ LET m == CHOOSE x \in ItemsFor(s, k) : \A y \in ItemsFor(s, k) : x <= y
                     IN  challan'[k].INVOICE_MTR = <<Fmt2(sess[s].req.items[m].q)>>]_vars

\* the rows whose marker changes in the step
MarkedInStep == {k \in 1..Len(challan) : challan'[k].INVOICE_MTR # challan[k].INVOICE_MTR}

\* C8: every challan row marked in a reconciliation pass holds, formatted to 2
\* decimals, the quantity of the invoice line item that was invoiced against
\* it: the rows marked can be paired with items of the invoice, no item with
\* two rows, so that each row corresponds to its item (Firm and Supplier code
\* equal, challan number and description equal after trimming) and holds that
\* item's quantity; a row that corresponds to no item is never marked.
C8_MarkedRowHoldsInvoicedQuantity ==
    [][MarkedInStep # {} =>
          \E s \in Sessions :
              /\ sess[s].pc = "recon_write"
              /\ sess'[s].pc # "recon_write"
              /\ \E f \in [MarkedInStep -> 1..Len(sess[s].req.items)] :
                    /\ \A j \in MarkedInStep, k \in MarkedInStep : j # k => f[j] # f[k]
                    /\ \A k \in MarkedInStep :
                          /\ Corresponds(challan[k], sess[s].req.firm, sess[s].req.scode,
                                         sess[s].req.items[f[k]])
                          /\ challan'[k].INVOICE_MTR
                               = <<Fmt2(sess[s].req.items[f[k]].q)>>]_vars

-----------------------------------------------------------------------------
(* Claims on proration and rounding *)

RowsOfDoc(doc) == {k \in 1..Len(invoice) : invoice[k].doc = doc}

RECURSIVE SumGrandTotal(_)
SumGrandTotal(ks) ==
    IF ks = {} THEN 0
    ELSE LET k == CHOOSE x \in ks : TRUE
         IN  invoice[k].Grand_Total + SumGrandTotal(ks \ {k})

\* C9: for every generated invoice with 1 to 10 valid line items the stored
\* per-line Grand_Total of its ledger rows sum to the document grand total.
C9_RowGrandTotalsSumToDocumentTotal ==
    \A s \in Sessions :
        LET r == sess[s].req
        IN  (/\ sess[s].pc = "recon_read"
             /\ Len(r.items) <= INV_MAX_ROWS
             /\ Cardinality(RowsOfDoc(r.doc)) = Len(r.items))
            => SumGrandTotal(RowsOfDoc(r.doc)) = RoundedTotal(r.items, r.discount)

RECURSIVE SumTaxable(_, _, _)
SumTaxable(items, discount, i) ==
    IF i > Len(items) THEN Zero
    ELSE RAdd(RowTaxable(items, discount, i), SumTaxable(items, discount, i + 1))

HasInvoiceItems(s) == sess[s].pc \in {"invoice_append", "recon_read", "recon_write"}

\* The identities of the proration in exact arithmetic, where they hold: the
\* shares, the floor at zero, and the sum of the taxable amounts.
ProrationInExactArithmetic ==
    \A s \in Sessions :
        LET items == sess[s].req.items
            D     == sess[s].req.discount
            S     == SubTotal(items)
        IN  (HasInvoiceItems(s) /\ RLe(Zero, D) /\ RLt(Zero, S)) =>
                /\ \A i \in 1..Len(items) :
                      /\ RMul(RowDiscount(items, D, i), S) = RMul(D, items[i].a)
                      /\ RowTaxable(items, D, i)
                           = RMax0(RSub(items[i].a, RDiv(RMul(D, items[i].a), S)))
                /\ RLe(D, S) => RAdd(SumTaxable(items, D, 1), D) = S
                /\ RLt(S, D) => \A i \in 1..Len(items) : RowTaxable(items, D, i) = Zero
                /\ SumTaxable(items, D, 1) = RMax0(RSub(S, D))
                /\ SumTaxable(items, D, 1) = GrossAll(items, D)

\* the sum of floats without rounding
RECURSIVE XSumFrom(_, _, _)
XSumFrom(xs, i, acc) ==
    IF i > Len(xs) THEN acc ELSE XSumFrom(xs, i + 1, XAdd(acc, xs[i]))

XSum(xs) == XSumFrom(xs, 1, FZero)

\* C10: with D >= 0 and S > 0 each line's discount share is D*a_i/S and its
\* taxable amount max(a_i - share_i, 0); sum(taxable_i) + D = S when D <= S,
\* every taxable amount is 0 when D > S, and in both cases sum(taxable_i) is
\* the document taxable amount max(S - D, 0). The sums are taken as satisfied
\* when they hold either rounded as floats or without rounding.
C10_ProrationPreservesTaxable ==
    LET a == prorated.amounts
        S == prorated.sub_total
        D == prorated.discount
        T == prorated.row_taxable
    IN  (T # <<>> /\ ~D.neg /\ FLess(FZero, S)) =>
            /\ \A i \in 1..Len(T) :
                  T[i] = FMax0(FSub(a[i], FMul(D, FDiv(a[i], S))))
            /\ ~FLess(S, D) => \/ FAdd(FSum(T), D) = S
                               \/ XAdd(XSum(T), D) = S
            /\ FLess(S, D) => \A i \in 1..Len(T) : T[i] = FZero
            /\ \/ FSum(T) = prorated.gross_all
               \/ XSum(T) = prorated.gross_all

-----------------------------------------------------------------------------
(* Claims on the rounding remainder *)

\* session s appends a row to the invoice ledger in the step
AppendsInvoiceRow(s) ==
    /\ sess[s].pc = "invoice_append"
    /\ sess'[s] # sess[s]
    /\ Len(invoice') = Len(invoice) + 1

\* the gross of a document: the taxable amount max(S - D, 0) with GST on top
ClaimedGross(items, discount) ==
    RMul(RMax0(RSub(SumAmounts(items), discount)), Rat(100 + GST_TOTAL, 100))

\* n is a whole number nearest to x
Nearest(n, x) ==
    /\ RLe(RSub(Rat(n, 1), x), Rat(1, 2))
    /\ RLe(RSub(x, Rat(n, 1)), Rat(1, 2))

\* grand total - gross
ClaimedRemainder(items, discount) ==
    RSub(Rat(RoundedTotal(items, discount), 1), ClaimedGross(items, discount))

-----------------------------------------------------------------------------
(* Claims on the document and the ledger record of one request *)

InFlightChallan(s) == sess[s].pc = "challan_append"

InFlightInvoice(s) == sess[s].pc \in {"invoice_append", "recon_read", "recon_write"}

\* the sum of the Taxable_Amount cells of the challan rows of items, in hundredths
RECURSIVE TaxableCellsFrom(_, _)
TaxableCellsFrom(items, i) ==
    IF i > Len(items) THEN 0 ELSE Fmt2(items[i].a) + TaxableCellsFrom(items, i + 1)

\* C12: the document and the ledger record of one request are consistent for
\* any number of valid line items: the sub total, taxable amount, tax,
\* round-off and grand total of the invoice document equal the sub_total,
\* gross_all, cgst_all + sgst_all, round_off_total and rounded_total from
\* which the request's ledger rows are computed, and the grand total of a
\* challan document equals the sum of the Taxable_Amount of the challan rows
\* the request appends.
C12_DocumentTotalsEqualLedgerTotals ==
    \A s \in Sessions :
        LET r == sess[s].req
            g == GrossAll(r.items, r.discount)
        IN  /\ InFlightInvoice(s) =>
                  /\ r.data.sub_total = SubTotal(r.items)
                  /\ r.data.taxable = g
                  /\ r.data.tax = RAdd(TaxLeg(g, CGST_RATE), TaxLeg(g, SGST_RATE))
                  /\ r.data.round_off = RoundOffTotal(r.items, r.discount)
                  /\ r.data.rounded = RoundedTotal(r.items, r.discount)
            /\ InFlightChallan(s) =>
                  Fmt2(r.data.sub_total) = TaxableCellsFrom(r.items, 1)

\* session s appends a row to the challan ledger in the step
AppendsChallanRow(s) ==
    /\ sess[s].pc = "challan_append"
    /\ sess'[s] # sess[s]
    /\ Len(challan') = Len(challan) + 1

\* the table has cap rows, shows the first min(n, cap) items in order and
\* leaves the other rows blank
ShowsFirst(table, items, cap) ==
    /\ Len(table) = cap
    /\ \A k \in 1..cap :
          table[k] = IF k <= Len(items) THEN <<items[k]>> ELSE <<>>

\* a turn of an append loop: item i is followed by item i + 1, and the loop
\* is left after the last item only
TurnsInOrder(s, loop) ==
    /\ (sess[s].pc # loop /\ sess'[s].pc = loop) => sess'[s].req.i = 1
    /\ (sess[s].pc = loop /\ sess'[s] # sess[s]) =>
          IF sess[s].req.i < Len(sess[s].req.items)
          THEN sess'[s].pc = loop /\ sess'[s].req.i = sess[s].req.i + 1
                                  /\ sess'[s].req.items = sess[s].req.items
          ELSE sess'[s].pc # loop

RowShowsItem(row, item) ==
    /\ row.Description = item.desc
    /\ row.Qty = Fmt2(item.q)

\* C13: for a request with n valid line items the document's item table has
\* a fixed number of rows (5 for a challan, 10 for an invoice) showing the
\* first min(n, cap) items in submission order, the other rows blank, while
\* the ledger append takes all n items, one row each, in the same order.
C13_TableCappedLedgerTakesAll ==
    /\ [](\A s \in Sessions :
            /\ InFlightChallan(s) =>
                  ShowsFirst(sess[s].req.data.table, sess[s].req.items, CH_MAX_ROWS)
            /\ InFlightInvoice(s) =>
                  ShowsFirst(sess[s].req.data.table, sess[s].req.items, INV_MAX_ROWS))
    /\ [][\A s \in Sessions :
            /\ TurnsInOrder(s, "challan_append")
            /\ TurnsInOrder(s, "invoice_append")
            /\ AppendsChallanRow(s) =>
                  RowShowsItem(challan'[Len(challan')], sess[s].req.items[sess[s].req.i])
            /\ AppendsInvoiceRow(s) =>
                  RowShowsItem(invoice'[Len(invoice')], sess[s].req.items[sess[s].req.i])]_vars

\* an invoice of more lines than the table has rows: the table is full and
\* every line has its row on the ledger
C13_Witness ==
    \E s \in Sessions :
        /\ sess[s].pc \in {"recon_read", "recon_write"}
        /\ Len(sess[s].req.items) > INV_MAX_ROWS
        /\ Len(invoice) = Len(sess[s].req.items)
        /\ sess[s].req.data.table[INV_MAX_ROWS] = <<sess[s].req.items[INV_MAX_ROWS]>>
        /\ \A k \in 1..Len(invoice) : RowShowsItem(invoice[k], sess[s].req.items[k])

-----------------------------------------------------------------------------
(* Claims on validation *)

\* a submitted line that the claim has dropped: a quantity or a rate that does
\* not parse, a non-positive quantity, a negative rate
DroppedAsClaimed(x) ==
    \/ ~x.q.ok
    \/ ~x.r.ok
    \/ RLe(x.q.v, Zero)
    \/ RLt(x.r.v, Zero)

\* and a line whose description is blank
DroppedOrBlank(x) == DroppedAsClaimed(x) \/ Strip(x.desc) = <<>>

\* the position in the form of the j-th line of the set kept
NthOf(kept, j) == CHOOSE k \in kept : Cardinality({m \in kept : m < k}) = j - 1

ItemIsLine(item, x) ==
    /\ item.desc = Strip(x.desc)
    /\ item.q = x.q.v
    /\ item.r = x.r.v
    /\ item.a = RMul(x.q.v, x.r.v)

\* items are the lines of the form at the positions kept, in order
KeptInOrder(items, form, kept) ==
    /\ Len(items) = Cardinality(kept)
    /\ \A j \in 1..Len(items) : ItemIsLine(items[j], form[NthOf(kept, j)])

Rejected(s) == sess[s].pc \in {"challan_rejected", "invoice_rejected"}

\* the step in which the handler of s returns the redirect has no effect
RejectedWithoutEffect(s) ==
    (~Rejected(s) /\ Rejected(s)') =>
        /\ challan' = challan
        /\ invoice' = invoice
        /\ sess'[s].resp = Redirected
        /\ sess'[s].req.data = NoDocument

\* C14 as stated: every submitted line with non-positive quantity, negative
\* rate or unparsable quantity or rate is dropped and every other line is
\* kept in order; a request with no valid line is rejected with the
\* validation message and has no effect.
C14_InvalidLinesDropped ==
    /\ [](\A s \in Sessions :
            LET r    == sess[s].req
                kept == {k \in 1..Len(r.form) : ~DroppedAsClaimed(r.form[k])}
            IN  /\ (InFlightChallan(s) \/ InFlightInvoice(s)) =>
                      kept # {} /\ KeptInOrder(r.items, r.form, kept)
                /\ Rejected(s) => kept = {})
    /\ [][\A s \in Sessions : RejectedWithoutEffect(s)]_vars

\* C14, amended: every submitted line with a blank description, non-positive
\* quantity, negative rate or unparsable quantity or rate is dropped and
\* every other line is kept in order; a request with no valid line is
\* rejected with the validation message and has no effect: no document, no
\* ledger row, no challan marker.
C14_InvalidOrBlankLinesDropped ==
    /\ [](\A s \in Sessions :
            LET r    == sess[s].req
                kept == {k \in 1..Len(r.form) : ~DroppedOrBlank(r.form[k])}
            IN  /\ (InFlightChallan(s) \/ InFlightInvoice(s)) =>
                      kept # {} /\ KeptInOrder(r.items, r.form, kept)
                /\ Rejected(s) => kept = {})
    /\ [][\A s \in Sessions : RejectedWithoutEffect(s)]_vars

\* a form of two lines, the first dropped and the second kept, is in flight
C14_Witness ==
    \E s \in Sessions :
        /\ InFlightChallan(s) \/ InFlightInvoice(s)
        /\ Len(sess[s].req.form) = 2
        /\ DroppedAsClaimed(sess[s].req.form[1])
        /\ Len(sess[s].req.items) = 1
        /\ ItemIsLine(sess[s].req.items[1], sess[s].req.form[2])

-----------------------------------------------------------------------------
(* Claims on failures and on the order of the steps of a request *)

InFlight(s) == InFlightChallan(s) \/ InFlightInvoice(s)

Reconciling(s) == sess[s].pc \in {"recon_read", "recon_write"}

\* C15: a backend write failure never fails document creation: whether the
\* ledger appends and the reconciliation write succeed or fail, a request
\* that passed validation ends, and ends by returning the document it
\* generated; the reconciliation, failed or not, leaves the invoice ledger
\* rows already appended in place.
C15_WriteFailuresSwallowed ==
    /\ [][\A s \in Sessions :
            /\ (InFlight(s) /\ ~InFlight(s)') =>
                  /\ sess[s].req.data.kind # "none"
                  /\ sess'[s].resp = Sent(sess[s].req.data)
            /\ (Reconciling(s) /\ sess'[s] # sess[s]) => invoice' = invoice]_vars
    /\ \A s \in Sessions : InFlight(s) ~> (sess[s].resp.kind = "pdf")

\* the document of an invoice has been returned although none of its rows
\* reached the invoice ledger and the matching challan row is still unmarked
C15_Witness ==
    \E s \in Sessions :
        /\ sess[s].resp.kind = "pdf"
        /\ sess[s].resp.pdf.kind = "invoice"
        /\ sess[s].resp.pdf.table[1] # <<>>
        /\ sess[s].resp.pdf.table[1][1].desc = Silk
        /\ invoice = <<>>
        /\ \A k \in 1..Len(challan) : IsBlank(challan[k].INVOICE_MTR)

\* the reconciliation is entered from the last turn of the append loop of the
\* same request, with the document rendered
ReconAfterLastAppend(s) ==
    (~Reconciling(s) /\ Reconciling(s)') =>
        /\ sess[s].pc = "invoice_append"
        /\ sess[s].req.i = Len(sess[s].req.items)
        /\ sess[s].req.data.kind = "invoice"

\* C17: the document is rendered and all invoice ledger rows are
\* appended, then the success response is issued, and only afterwards is the
\* reconciliation attempted; the reconciliation never starts before the last
\* invoice ledger append of the request.
C17_ResponseBeforeReconciliation ==
    /\ [](\A s \in Sessions : Reconciling(s) => sess[s].resp.kind = "pdf")
    /\ [][\A s \in Sessions : ReconAfterLastAppend(s)]_vars

\* what the handler does instead: the document is rendered and all invoice
\* ledger rows are appended, then the reconciliation is attempted, and only
\* then is the response issued, by the step that ends the reconciliation
ReconciliationBeforeResponse ==
    /\ [](\A s \in Sessions : InFlightInvoice(s) => sess[s].resp.kind = "none")
    /\ [][\A s \in Sessions :
            /\ ReconAfterLastAppend(s)
            /\ (InFlightInvoice(s) /\ sess'[s].resp.kind = "pdf") =>
                  /\ Reconciling(s)
                  /\ sess'[s].resp = Sent(sess[s].req.data)]_vars

-----------------------------------------------------------------------------
(* Claims on the readers of the spreadsheet *)

\* the tab a reader opens
TabOf(fn) ==
    CASE fn = "load_firms" -> ID_TAB_NAME
      [] fn = "load_suppliers" -> SUPPLIER_TAB_NAME
      [] fn \in {"load_challan_rows", "get_next_challan_number"} -> CHALLAN_TAB_NAME
      [] fn = "get_next_invoice_number" -> INVOICE_TAB_NAME
      [] fn = "check_login_from_sheet" -> PASS_TAB_NAME

\* the defaults of the claim: the empty mapping, the empty list, "1", false
SafeDefault(fn) ==
    CASE fn \in {"load_firms", "load_suppliers", "load_challan_rows"} -> <<>>
      [] fn \in {"get_next_invoice_number", "get_next_challan_number"} -> <<"1">>
      [] fn = "check_login_from_sheet" -> FALSE

\* the store is unreachable, the credentials are missing or the tab is missing
ReadFails(fn) ==
    \/ ~store.reachable
    \/ ~store.creds
    \/ TabOf(fn) \notin DOMAIN store.tabs

\* C16: every reader called while the store is unreachable, the credentials
\* are missing or its table is missing returns its safe default instead of
\* raising: load_firms and load_suppliers the empty mapping,
\* load_challan_rows the empty list, get_next_invoice_number and
\* get_next_challan_number "1", check_login_from_sheet false.
C16_ReadsDegradeToSafeDefaults ==
    (loaded.fn # "none" /\ ReadFails(loaded.fn)) =>
        loaded.value = SafeDefault(loaded.fn)

\* load_suppliers has returned the empty mapping from a reachable spreadsheet
\* that has every tab but Supplier
C16_Witness ==
    /\ loaded.fn = "load_suppliers"
    /\ store.creds /\ store.reachable
    /\ DOMAIN store.tabs = TabNames \ {SUPPLIER_TAB_NAME}
    /\ loaded.value = <<>>


\* load_challan_rows has returned the records of a Challan tab it could read
\* that is not empty
LoadedChallanRows ==
    /\ loaded.fn = "load_challan_rows"
    /\ Readable(CHALLAN_TAB_NAME)
    /\ TabValues(CHALLAN_TAB_NAME) # <<>>

\* the header row of the Challan tab and the rows that have a cell, in order
SheetHeader == TabValues(CHALLAN_TAB_NAME)[1]

SourceRows == SelectSeq(Tail(TabValues(CHALLAN_TAB_NAME)), AnyCell)

CanonSet == {CANON_KEYS[j] : j \in 1..Len(CANON_KEYS)}

\* header h, lowercased and without its non-alphanumeric characters, is the
\* name or a synonym of entry k of KEY_SYNONYMS, normalised alike
Matches(h, k) == norm_key(h) \in NormalNames[k]

\* the first canonical field, in the declared order, that h matches
ClaimedField(h) ==
    IF \E k \in 1..Len(KEY_SYNONYMS) : Matches(h, k)
    THEN KEY_SYNONYMS[CHOOSE k \in 1..Len(KEY_SYNONYMS) :
                          Matches(h, k) /\ \A j \in 1..(k - 1) : ~Matches(h, j)].canon
    ELSE NoCanon

\* the claimed field of every column of the header
HeaderFields == [i \in 1..Len(SheetHeader) |-> ClaimedField(SheetHeader[i])]

\* the columns of row r that hold a value of field ck, under the fields hf
ColumnsOf(hf, r, ck) == {i \in 1..Len(r) : i <= Len(hf) /\ hf[i] = ck}

Last(S) == CHOOSE i \in S : \A j \in S : j <= i

\* C18: every record returned by load_challan_rows has exactly the canonical
\* key set: each field of CANON_KEYS is present, with the empty string when
\* no column of the row maps to it (the source has no such column or the row
\* is shorter than the header), and no other key appears.
C18_RecordsHaveExactlyCanonKeys ==
    LoadedChallanRows =>
        LET hf == HeaderFields
            rows == SourceRows
        IN  /\ Len(loaded.value) = Len(rows)
            /\ \A k \in 1..Len(loaded.value) :
                  /\ DOMAIN loaded.value[k] = CanonSet
                  /\ \A ck \in CanonSet :
                        ColumnsOf(hf, rows[k], ck) = {} => loaded.value[k][ck] = <<>>

\* the records of a tab whose header has a column of no field ("Remarks")
\* and two columns the first row is too short to reach
C18_Witness ==
    /\ LoadedChallanRows
    /\ SheetHeader = <<<<"R", "e", "m", "a", "r", "k", "s">>, <<"Q", "t", "y">>, <<"M", "T", "R">>>>
    /\ Len(loaded.value) = 2
    /\ Len(SourceRows[1]) = 2
    /\ loaded.value[1][<<"Q", "t", "y">>] = <<"b">>
    /\ loaded.value[1][<<"M", "T", "R">>] = <<>>
    /\ loaded.value[1][<<"F", "i", "r", "m">>] = <<>>

\* canon_map holds exactly the headers that match a field, each under the
\* first field it matches
HeadersMapAsClaimed ==
    LET hf == HeaderFields
        cmap == canon_map(SheetHeader)
    IN  \A i \in 1..Len(SheetHeader) :
            /\ SheetHeader[i] \in DOMAIN cmap <=> hf[i] # NoCanon
            /\ SheetHeader[i] \in DOMAIN cmap => cmap[SheetHeader[i]] = hf[i]

\* the headers "Qty", "QNT" and "Meter" are mapped to Qty
QtySynonymsMapToQty ==
    LET cmap == canon_map(SheetHeader)
    IN  \A i \in 1..Len(SheetHeader) :
            SheetHeader[i] \in {<<"Q", "t", "y">>, <<"Q", "N", "T">>,
                                <<"M", "e", "t", "e", "r">>} =>
                /\ SheetHeader[i] \in DOMAIN cmap
                /\ cmap[SheetHeader[i]] = <<"Q", "t", "y">>

\* a field that several columns of a row map to holds the last one's value
LastColumnStored ==
    LET hf == HeaderFields
        rows == SourceRows
    IN  \A k \in 1..Len(loaded.value) : \A ck \in CanonSet :
            LET cols == ColumnsOf(hf, rows[k], ck)
            IN  cols # {} => loaded.value[k][ck] = rows[k][Last(cols)]

\* C19: a raw header maps to the first canonical field, in the declared order
\* of KEY_SYNONYMS, whose name or one of whose synonyms equals the header
\* after lowercasing and removing every non-alphanumeric character; "Qty",
\* "QNT" and "Meter" all map to Qty; and when several columns of a row map to
\* the same field, the record holds the value of the last of them.
C19_FirstFieldLastColumn ==
    LoadedChallanRows =>
        /\ HeadersMapAsClaimed
        /\ QtySynonymsMapToQty
        /\ LastColumnStored

\* the columns "Qty", "QNT" and "Meter" of one row all went to the field Qty,
\* which holds the value of the last of them, and MTR stayed empty
C19_Witness ==
    /\ LoadedChallanRows
    /\ SheetHeader = <<<<"Q", "t", "y">>, <<"Q", "N", "T">>, <<"M", "e", "t", "e", "r">>>>
    /\ SourceRows[1] = <<<<"a">>, <<"b">>, <<"c">>, <<"d">>, <<"e">>>>
    /\ loaded.value[1][<<"Q", "t", "y">>] = <<"c">>
    /\ loaded.value[1][<<"M", "T", "R">>] = <<>>

\* C20: header normalization is idempotent: on a header row that consists of
\* the canonical field names the mapping sends every canonical name to itself,
\* so that a row read under it comes back cell for cell; and every field a
\* header was mapped to is mapped to itself.
C20_CanonicalHeaderMapsToItself ==
    LoadedChallanRows =>
        LET cmap == canon_map(SheetHeader)
            rows == SourceRows
        IN  /\ \A h \in DOMAIN cmap : canon_map(<<cmap[h]>>) = [x \in {cmap[h]} |-> x]
            /\ SheetHeader = CANON_KEYS =>
                  /\ cmap = [ck \in CanonSet |-> ck]
                  /\ \A k \in 1..Len(loaded.value) : \A j \in 1..Len(CANON_KEYS) :
                        loaded.value[k][CANON_KEYS[j]] =
                            IF j <= Len(rows[k]) THEN rows[k][j] ELSE <<>>

\* the records of a tab under the canonical header: the long row came back
\* with MTR and Qty apart
C20_Witness ==
    /\ LoadedChallanRows
    /\ SheetHeader = CANON_KEYS
    /\ \E k \in 1..Len(loaded.value) :
          /\ Len(SourceRows[k]) > Len(CANON_KEYS)
          /\ loaded.value[k][<<"Q", "t", "y">>] = <<"5">>
          /\ loaded.value[k][<<"M", "T", "R">>] = <<"6">>

-----------------------------------------------------------------------------
(* Claims on the writers of the ledger tabs *)

IsPrefix(a, b) == Len(a) <= Len(b) /\ SubSeq(b, 1, Len(a)) = a

\* header has a column for every name in req, compared as the code compares
\* header names (stripped, lowercased)
HasColumns(header, req) ==
    \A k \in 1..Len(req) :
        \E i \in 1..Len(header) : LowerOf(Strip(header[i])) = LowerOf(req[k])

\* the columns of req that header lacks, in the order of req
MissingFrom(header, req) ==
    LET Lacks(col) == ~HasColumns(header, <<col>>)
    IN  SelectSeq(req, Lacks)

\* the step is a call of writer fn
CallOf(fn) == loaded'.fn = fn

\* the step made the worksheet call named call
Called(call) == \E k \in 1..Len(loaded'.value.calls) : loaded'.value.calls[k] = call

\* the column a reader of the invoice ledger asks for by name, line 284
InvoiceColumnsRead == << <<"I", "n", "v", "o", "i", "c", "e", "_", "N", "u", "m", "b", "e", "r">> >>

\* the columns the code needs in the header of a ledger tab
RequiredColumns(tab) ==
    IF tab = CHALLAN_TAB_NAME THEN REQ_CHALLAN_HEADER ELSE InvoiceColumnsRead

\* the writer whose calls append a row to tab
AppenderOf(tab) ==
    IF tab = CHALLAN_TAB_NAME THEN "append_row_to_challan" ELSE "append_row_to_invoice"

\* On the challan ledger the appender heals the header as stated: the old
\* header is a prefix of the new one, the missing required columns follow it
\* in their declared order, and a complete header is not written again.
ChallanAppendHealsHeader ==
    [][CallOf("append_row_to_challan") =>
         LET old == HeaderOf(store.tabs[CHALLAN_TAB_NAME])
             new == HeaderOf(store'.tabs[CHALLAN_TAB_NAME])
         IN  /\ IsPrefix(old, new)
             /\ Called("append_row") =>
                    new = old \o MissingFrom(old, REQ_CHALLAN_HEADER)
             /\ HasColumns(old, REQ_CHALLAN_HEADER) => ~Called("update")]_vars

\* C21: before a row is appended to a ledger table every required column
\* missing from its header is appended at the end of the header, and no write
\* changes the text, order or position of an existing header column: the old
\* header is a prefix of the new one.
C21_HeaderSelfHealing ==
    [][\A tab \in {CHALLAN_TAB_NAME, INVOICE_TAB_NAME} :
         LET old == HeaderOf(store.tabs[tab])
             new == HeaderOf(store'.tabs[tab])
         IN  /\ IsPrefix(old, new)
             /\ CallOf(AppenderOf(tab)) /\ Called("append_row") =>
                    HasColumns(new, RequiredColumns(tab))]_vars

\* the marker of sheet row k of a Challan tab: the cell under the column that
\* the header names INVOICE_MTR, empty when the header has no such column
MarkerOf(vals, k) == val(HeaderIndex(HeaderOf(vals)), vals[k], invoice_mtr)

\* the step appended a row to the Challan tab
AppendedChallanRow == CallOf("append_row_to_challan") /\ Called("append_row")

\* the row the step appended is empty under every column named INVOICE_MTR
AppendedRowUnmarked ==
    LET new    == store'.tabs[CHALLAN_TAB_NAME]
        header == new[1]
        row    == new[Len(new)]
    IN  /\ Len(row) = Len(header)
        /\ \A i \in 1..Len(header) :
              LowerOf(Strip(header[i])) = invoice_mtr => row[i] = <<>>

\* the step appended a line that load_challan_rows reads back unmarked
AppendedRowImportable ==
    LET recs == ChallanRecords(store'.tabs[CHALLAN_TAB_NAME])
    IN  /\ recs # <<>>
        /\ IsBlank(recs[Len(recs)][<<"I", "N", "V", "O", "I", "C", "E", "_", "M", "T", "R">>])

\* the rows of the Challan tab whose marker the step turned from empty to
\* not empty
NewlyMarked ==
    {k \in 2..Len(store.tabs[CHALLAN_TAB_NAME]) :
        /\ MarkerOf(store.tabs[CHALLAN_TAB_NAME], k) = <<>>
        /\ MarkerOf(store'.tabs[CHALLAN_TAB_NAME], k) # <<>>}

\* C27: every row appended by append_row_to_challan has an empty INVOICE_MTR
\* cell, whatever the row dict carries, so the new line is read back unmarked,
\* and the marker of a row becomes non-empty only by reconciliation.
C27_AppendedRowsStartUnmarked ==
    [][/\ AppendedChallanRow => AppendedRowUnmarked /\ AppendedRowImportable
       /\ NewlyMarked # {} => CallOf("write_invoice_mtr_to_challan")]_vars

\* a row was appended from a row dict that carries an invoice_mtr key
\* (challan 2), under a header that has the marker column
C27_Witness ==
    /\ loaded.fn = "append_row_to_challan"
    /\ \E k \in 1..Len(loaded.value.calls) : loaded.value.calls[k] = "append_row"
    /\ \E p \in 1..Len(loaded.value.args[1]) : loaded.value.args[1][p][1] = invoice_mtr
    /\ LET vals == TabValues(CHALLAN_TAB_NAME)
       IN  /\ invoice_mtr \in DOMAIN HeaderIndex(HeaderOf(vals))
           /\ val(HeaderIndex(HeaderOf(vals)), vals[Len(vals)],
                  <<"C", "h", "a", "l", "l", "a", "n", "_", "N", "u", "m", "b", "e", "r">>) = <<"2">>
           /\ MarkerOf(vals, Len(vals)) = <<>>

\* cell i of a sheet row; a row that ends before column i is empty there
CellOf(row, i) == IF i <= Len(row) THEN row[i] ELSE <<>>

\* the columns in which sheet row k differs between two versions of a tab
ChangedCells(old, new, k) ==
    LET n == IF Len(old[k]) > Len(new[k]) THEN Len(old[k]) ELSE Len(new[k])
    IN  {i \in 1..n : CellOf(old[k], i) # CellOf(new[k], i)}

\* the step is a reconciliation that sent its batch of updates
ReconciliationWrote == CallOf("write_invoice_mtr_to_challan") /\ Called("batch_update")

\* sheet row k of a Challan tab belongs to the invoice of firm company_name
\* and supplier supplier_code and names the challan and description of one of
\* its items
MatchesSomeItem(vals, k, company_name, supplier_code, items) ==
    LET idx == HeaderIndex(HeaderOf(vals))
        Of(name) == val(idx, vals[k], name)
    IN  /\ Of(<<"F", "i", "r", "m">>) = company_name
        /\ Of(<<"S", "u", "p", "p", "l", "i", "e", "r", " ", "C", "o", "d", "e">>) = supplier_code
        /\ \E m \in 1..Len(items) :
              /\ Of(<<"C", "h", "a", "l", "l", "a", "n", "_", "N", "u", "m", "b", "e", "r">>) = Strip(items[m].ch)
              /\ Of(<<"D", "e", "s", "c", "r", "i", "p", "t", "i", "o", "n">>) = Strip(items[m].desc)

\* C26: the ledgers are append-only apart from the marker.  No step changes
\* or removes a row of the Invoice tab; a step changes a cell of an existing
\* data row of the Challan tab only when it is a reconciliation, the cell is
\* the INVOICE_MTR cell of the row and the row matches an item of the invoice.
C26_LedgersAppendOnlyApartFromMarker ==
    [][LET oldI == store.tabs[INVOICE_TAB_NAME]
           newI == store'.tabs[INVOICE_TAB_NAME]
           oldC == store.tabs[CHALLAN_TAB_NAME]
           newC == store'.tabs[CHALLAN_TAB_NAME]
       IN  /\ IsPrefix(oldI, newI)
           /\ Len(oldC) <= Len(newC)
           /\ \A k \in 2..Len(oldC) :
                 ChangedCells(oldC, newC, k) # {} =>
                    /\ ReconciliationWrote
                    /\ ChangedCells(oldC, newC, k) =
                           {HeaderIndex(HeaderOf(newC))[invoice_mtr]}
                    /\ MatchesSomeItem(oldC, k, loaded'.value.args[1],
                                       loaded'.value.args[2], loaded'.value.args[3])]_vars

\* a reconciliation has marked a row of a tab that also holds a row matching
\* no item of its invoice
C26_Witness ==
    /\ loaded.fn = "write_invoice_mtr_to_challan"
    /\ \E c \in 1..Len(loaded.value.calls) : loaded.value.calls[c] = "batch_update"
    /\ LET vals == TabValues(CHALLAN_TAB_NAME)
           Hit(k) == MatchesSomeItem(vals, k, loaded.value.args[1],
                                     loaded.value.args[2], loaded.value.args[3])
       IN  /\ \E k \in 2..Len(vals) : Hit(k) /\ MarkerOf(vals, k) # <<>>
           /\ \E k \in 2..Len(vals) : ~Hit(k)

-----------------------------------------------------------------------------
(* Claims on the import of challan lines *)

\* the challan ledger holds a row of the challan with an empty INVOICE_MTR
LedgerHasUnmarked(firm, scode, ch) ==
    \E k \in 1..Len(challan) :
        RowOfChallan(challan[k], firm, scode, ch) /\ IsBlank(challan[k].INVOICE_MTR)

\* the challan ledger holds an unmarked row of the challan with this description
LedgerHasUnmarkedLine(firm, scode, ch, desc) ==
    \E k \in 1..Len(challan) :
        /\ RowOfChallan(challan[k], firm, scode, ch)
        /\ challan[k].Description = desc
        /\ IsBlank(challan[k].INVOICE_MTR)

\* the invoice page of s is on display with the rows it was loaded with
InvoicePageShown(s) == sess[s].pc = "invoice_form"

\* Over the rows a page was loaded with the selection is as stated: a challan
\* number is offered exactly when one of its rows on the page is unmarked,
\* and each imported line is an unmarked row of the page.
PageOffersChallansWithUnmarkedRows ==
    \A s \in Sessions :
        InvoicePageShown(s) =>
            LET page == sess[s].page
                Unmarked(ch) == {k \in 1..Len(page) :
                                    /\ RowOfChallan(page[k], FirmA, SupplierP, ch)
                                    /\ IsBlank(page[k].INVOICE_MTR)}
            IN  \A k \in 1..Len(page) :
                    LET ch    == Strip(page[k].Challan_Number)
                        lines == addFromChallan(page, FirmA, SupplierP, ch)
                    IN  ch # <<>> =>
                          /\ ch \in PageChallans(page, FirmA, SupplierP) <=> Unmarked(ch) # {}
                          /\ Len(lines) <= Cardinality(Unmarked(ch))
                          /\ \A i \in 1..Len(lines) :
                                \E j \in Unmarked(ch) : page[j].Description = lines[i].desc

\* C22: a challan number is offered for import only while one of its challan
\* rows has an empty INVOICE_MTR, and an import adds only unmarked rows: a
\* challan whose every line a reconciliation has marked is not offered again
\* and a marked line is not imported.
C22_MarkedChallanNeverOffered ==
    \A s \in Sessions :
        InvoicePageShown(s) =>
            \A ch \in PageChallans(sess[s].page, FirmA, SupplierP) :
                /\ LedgerHasUnmarked(FirmA, SupplierP, ch)
                /\ LET lines == addFromChallan(sess[s].page, FirmA, SupplierP, ch)
                   IN  \A i \in 1..Len(lines) :
                           LedgerHasUnmarkedLine(FirmA, SupplierP, ch, lines[i].desc)

-----------------------------------------------------------------------------
(* Claims on the PDF helpers *)

\* _num_words was called and this is what it was called with and gave
NumWordsDone == loaded.fn = "_num_words"

\* the words of a group of value x < 1000 under the Indian naming: hundreds,
\* then the tens and units
GroupWords(x) ==
    (IF x \div 100 # 0 THEN <<units[(x \div 100) + 1], <<"H", "u", "n", "d", "r", "e", "d">>>> ELSE <<>>)
    \o (IF x % 100 = 0 THEN <<>>
        ELSE IF x % 100 < 20 THEN <<units[(x % 100) + 1]>>
        ELSE <<tens[((x % 100) \div 10) + 1]>>
             \o (IF x % 10 # 0 THEN <<units[(x % 10) + 1]>> ELSE <<>>))

\* the words of a group followed by its name, none for a group of value zero
NamedGroup(x, name) == IF x = 0 THEN <<>> ELSE Append(GroupWords(x), name)

\* the words of n = cr * 10^7 + low in the Indian grouping, for cr < 1000
IndianWords(cr, low) ==
    IF cr = 0 /\ low = 0 THEN << <<"Z", "e", "r", "o">> >>
    ELSE NamedGroup(cr, <<"C", "r", "o", "r", "e">>)
         \o NamedGroup(low \div 100000, <<"L", "a", "k", "h">>)
         \o NamedGroup((low % 100000) \div 1000, <<"T", "h", "o", "u", "s", "a", "n", "d">>)
         \o GroupWords(low % 1000)

\* text is made of words separated by exactly one space, with no space at
\* either end
SingleSpacedText(text) ==
    /\ text # <<>>
    /\ ~IsSpace(text[1]) /\ ~IsSpace(text[Len(text)])
    /\ \A i \in 1..(Len(text) - 1) : ~(IsSpace(text[i]) /\ IsSpace(text[i + 1]))

\* Below 2000 crore _num_words is as stated: it returns, the text is single
\* spaced, and up to 999 crore its words are those of the Indian grouping,
\* a group of value zero giving none.
NumWordsBelow2000Crore ==
    NumWordsDone /\ loaded.value.cr < 2000 =>
        /\ ~loaded.value.words.raised
        /\ SingleSpacedText(loaded.value.words.text)
        /\ loaded.value.cr < 1000 =>
              loaded.value.words.text = Join(IndianWords(loaded.value.cr, loaded.value.low))

\* C23: _num_words is total on the non-negative integers: it returns words in
\* the Indian grouping, separated by exactly one space with no space at either
\* end, for every input.
C23_NumWordsTotal ==
    NumWordsDone =>
        /\ ~loaded.value.words.raised
        /\ SingleSpacedText(loaded.value.words.text)

\* _wrap was called and this is what it was called with and gave
WrapDone == loaded.fn = "_wrap"

\* the words of the text handed to _wrap
TextWords == Split(Unbroken(loaded.value.text))

\* C24: _wrap packs the words greedily.  The lines joined by single spaces
\* are the words of the input joined by single spaces; a line of more than
\* one word is no wider than max_width; the first word of a line would not
\* have fitted at the end of the line before; a line wider than max_width is
\* one whole word; an input without words gives one empty line.
C24_WrapPacksGreedily ==
    WrapDone =>
        LET lines == loaded.value.lines
            max_width == loaded.value.max_width
        IN  IF TextWords = <<>> THEN lines = << <<>> >>
            ELSE /\ Join(lines) = Join(TextWords)
                 /\ \A l \in 1..Len(lines) :
                       /\ lines[l] = Join(Split(lines[l]))
                       /\ Split(lines[l]) # <<>>
                       /\ Len(Split(lines[l])) > 1 => stringWidth(lines[l]) <= max_width
                       /\ stringWidth(lines[l]) > max_width =>
                             \E k \in 1..Len(TextWords) : lines[l] = TextWords[k]
                 /\ \A l \in 1..(Len(lines) - 1) :
                       stringWidth(lines[l] \o <<" ">> \o Split(lines[l + 1])[1]) > max_width

\* a text of three words wrapped into a line of two words and a line of one
\* word that is wider than max_width
C24_Witness ==
    /\ WrapDone
    /\ Len(TextWords) = 3
    /\ Len(loaded.value.lines) = 2
    /\ Len(Split(loaded.value.lines[1])) = 2
    /\ stringWidth(loaded.value.lines[2]) > loaded.value.max_width

-----------------------------------------------------------------------------
(* Claims on the output files *)

\* the step sends the document of a request
DocumentSent == loaded'.fn = "send_file" /\ ndocs' # ndocs

\* every file saved before the step is there after it, with its content
SavedFilesKept ==
    \A p \in DOMAIN disk.saved :
        p \in DOMAIN disk'.saved /\ disk'.saved[p] = disk.saved[p]

\* The name offered for the download is built from the number, the
\* counterparty and the second, and is suffixed until no file of the working
\* directory has it.  (Holds.)
DownloadNameUnused ==
    [][DocumentSent =>
          LET v == loaded'.value
          IN  /\ v.download_name \notin disk.cwd
              /\ v.dl_name \notin disk.cwd => v.download_name = v.dl_name
              /\ v.dl_name \in disk.cwd =>
                     \E i \in 1..(Cardinality(disk.cwd) + 1) :
                         /\ v.download_name =
                                SubSeq(v.dl_name, 1, Len(v.dl_name) - 4)
                                    \o <<"_">> \o ToStr(i) \o SubSeq(v.dl_name, Len(v.dl_name) - 3, Len(v.dl_name))
                         /\ \A j \in 1..(i - 1) :
                                SubSeq(v.dl_name, 1, Len(v.dl_name) - 4)
                                    \o <<"_">> \o ToStr(j) \o SubSeq(v.dl_name, Len(v.dl_name) - 3, Len(v.dl_name))
                                  \in disk.cwd]_vars

\* C25: the output file of a request is named from document number,
\* counterparty name and timestamp, with a numeric suffix when a file of that
\* name exists in the output location, so the file written for a request
\* never overwrites the file of an earlier request: a step that sends a
\* document keeps every saved file as it was, and the file it writes is new.
C25_OutputNeverOverwrites ==
    [][DocumentSent =>
          /\ SavedFilesKept
          /\ loaded'.value.saves =>
                 \E p \in DOMAIN disk'.saved \ DOMAIN disk.saved :
                     disk'.saved[p].doc = loaded'.value.doc]_vars

-----------------------------------------------------------------------------
(* Claims on the order of rendering and persistence *)

\* the step changes a ledger: a row is appended or a marker written
LedgerWritten == challan' # challan \/ invoice' # invoice

\* the request in flight of session s holds its rendered document
RenderingDone(s) ==
    LET r == sess[s].req
    IN  \/ /\ sess[s].pc = "challan_append"
           /\ r.data = draw_challan_pdf(Take(r.items, CH_MAX_ROWS))
        \/ /\ sess[s].pc \in {"invoice_append", "recon_write"}
           /\ r.data = draw_invoice_pdf(Take(r.items, INV_MAX_ROWS), r.discount)

\* the step ends a request of session s with the error of a failed rendering
RenderingFails(s) ==
    /\ sess[s].pc \in {"challan_form", "invoice_form"}
    /\ sess'[s] # sess[s]
    /\ sess'[s].resp = Failed

\* C28: in challan and in invoice creation the document is rendered before
\* anything is persisted: a step appends a ledger row or writes a marker only
\* for a request whose document has been rendered, and a request whose
\* rendering fails leaves both ledgers as they were.
C28_RenderedBeforePersisted ==
    [][/\ LedgerWritten =>
              \E s \in Sessions : sess'[s] # sess[s] /\ RenderingDone(s)
       /\ \A s \in Sessions : RenderingFails(s) => ~LedgerWritten]_vars

\* a rendering has failed on a page after rows of rendered documents of both
\* kinds were appended
C28_Witness ==
    \E s \in Sessions :
        /\ sess[s].resp = Failed
        /\ \E i \in 1..Len(challan) : challan[i].doc > 0
        /\ invoice # <<>>

-----------------------------------------------------------------------------
(* Claims on the login *)

\* the step is taken by session s from a page, as a new request
RequestOf(s) == PageShown(s) /\ sess'[s] # sess[s]

\* the step has an effect on the ledgers or produces a document
HasEffect ==
    \/ challan' # challan
    \/ invoice' # invoice
    \/ ndocs' # ndocs
    \/ \E s \in Sessions : sess'[s].resp.kind = "pdf" /\ sess'[s].resp # sess[s].resp

\* the step of a request of a session with no user shows no form, starts no
\* handler and has no effect; a request of a form is redirected
Refused(s) ==
    /\ ~HasEffect
    /\ sess'[s].req = NoRequest
    /\ sess'[s].pc \in {"idle", sess[s].pc}
    /\ sess'[s].pc = "idle" =>
           sess'[s] \in {IdleSession, [IdleSession EXCEPT !.resp = Redirected]}
    /\ sess'[s].pc # "idle" => sess'[s] = [sess[s] EXCEPT !.resp = Redirected]

\* the step is a login of session s that check_login_from_sheet accepted
LoginSucceeded(s) ==
    /\ loaded'.fn = "login"
    /\ loaded'.value.s = s
    /\ loaded'.value.ok
    /\ check_login_from_sheet(TabValues(PASS_TAB_NAME), Readable(PASS_TAB_NAME),
                              loaded'.value.user, loaded'.value.pwd)
    /\ user'[s] = loaded'.value.user

\* the step is a login of session s that check_login_from_sheet rejected
LoginFailed(s) ==
    /\ RequestOf(s) \/ loaded' # loaded
    /\ loaded'.fn = "login"
    /\ loaded'.value.s = s
    /\ ~loaded'.value.ok

\* C29: no request made without a logged-in session has any effect on the
\* ledgers: a request of a session with no user is redirected, appends no
\* row, writes no marker and produces no document; an effect comes from a
\* request of a session with a user or from a handler such a request
\* started; the user of a session is set only by a login that
\* check_login_from_sheet accepted and is removed by a logout; a failed login
\* never sets it.
C29_NoEffectWithoutLogin ==
    [][/\ \A s \in Sessions : (RequestOf(s) /\ ~LoggedIn(s)) => Refused(s)
       /\ HasEffect =>
              \E s \in Sessions :
                  sess'[s] # sess[s] /\ (LoggedIn(s) \/ InFlight(s))
       /\ \A s \in Sessions :
              /\ (InFlight(s)' /\ ~InFlight(s)) => LoggedIn(s)
              /\ (LoggedIn(s)' /\ user'[s] # user[s]) => LoginSucceeded(s)
              /\ (loaded'.fn = "logout" /\ loaded'.value.s = s /\ loaded' # loaded)
                     => ~LoggedIn(s)'
              /\ LoginFailed(s) => user' = user]_vars

\* the session user is always the ID of the PASS tab, which was readable
UserIsTheSheetId ==
    \A s \in Sessions :
        LoggedIn(s) =>
            /\ Readable(PASS_TAB_NAME)
            /\ user[s] = Strip(ACell(TabValues(PASS_TAB_NAME), 2, 1))

\* a session with no user was redirected from its challan form after a failed
\* login elsewhere, while the ledgers hold rows of logged-in requests
C29_Witness ==
    \E s \in Sessions :
        /\ ~LoggedIn(s)
        /\ sess[s].pc = "challan_form"
        /\ sess[s].resp = Redirected
        /\ loaded.fn = "login"
        /\ ~loaded.value.ok
        /\ challan # <<>>
        /\ invoice # <<>>

====
